---- MODULE Spec2Model ----
(***************************************************************************)
(* Model of the HBP validation-framework Python client                     *)
(* (hbp_validation_framework/__init__.py and utils.py).                    *)
(*                                                                         *)
(* A caller invokes one operation of TestLibrary / ModelCatalog (or the    *)
(* run_test orchestrator of utils.py) at a time.  Every operation is       *)
(* translated into an operator that maps the call's arguments and the      *)
(* answers of the environment (files, HTTP responses) to the HTTP          *)
(* exchanges it performs and to its outcome (return value or exception).   *)
(***************************************************************************)
EXTENDS Integers, Sequences, FiniteSets, TLC

VARIABLES
    pc,     \* "idle": the caller is about to call; "done": a call has ended
    op,     \* name of the operation last called
    args,   \* the arguments of that call
    env,    \* what the environment answered during that call
    out,    \* the outcome of that call: HTTP exchanges, exception, return value
    rt,     \* locals and event log of the run_test invocation in progress
    client  \* the client object the caller holds: its token ("none": no client)

vars == <<pc, op, args, env, out, rt, client>>

(***************************************************************************)
(* Bounds of the model.                                                    *)
(***************************************************************************)
MaxItems == 1   \* largest number of elements in a JSON envelope list
MaxObs   == 2   \* largest number of entries of an observation mapping

(***************************************************************************)
(* Values.                                                                 *)
(***************************************************************************)
Ids      == {"", "id1"}         \* "" is the default (absent) value
Aliases  == {"", "al1"}
Versions == {"", "v1"}
Paths    == {"", "f.json"}
Statuses == {200, 201, 202, 404, 500}

\* A response body: parseable as JSON or not; when it is, the list under the
\* envelope key ("tests", "models", "instances", "images") has n elements.
Bodies == [json : BOOLEAN, n : 0..MaxItems]

Responses == [status : Statuses, body : Bodies]

\* A local file: whether os.path.isfile holds, and whether str() of the value
\* json.load returns equals "<Response [200]>" (the file holds that string).
Files == [isfile : BOOLEAN, repr200 : BOOLEAN]

NoFile == [isfile |-> FALSE, repr200 |-> FALSE]
NoResp == [status |-> 0, body |-> [json |-> FALSE, n |-> 0]]

\* The k-th element of the envelope list of a response to a request for `what`.
Item(what, k) == [src |-> "server", what |-> what, k |-> k]
Items(what, body) == [k \in 1..body.n |-> Item(what, k)]
\* The parsed JSON body as a whole (response.json()).
Json(what, body) == [src |-> "server", what |-> what, k |-> body.n]

(***************************************************************************)
(* HTTP exchanges: requests.get / requests.post / requests.put with        *)
(* auth=self.auth, and the response the service gave.                      *)
(***************************************************************************)
\* HBPAuth.__call__: r.headers['Authorization'] = 'Bearer ' + self.token
HBPAuth(token) == [scheme |-> "Bearer", token |-> token]
NoAuth == [scheme |-> "none", token |-> "none"]
\* auth=self.auth omitted from every request after the first
SignFirstOnly(http, token) ==
    [i \in DOMAIN http |->
        IF http[i].auth.scheme = "Bearer" /\ i = 1
        THEN [http[i] EXCEPT !.auth = HBPAuth(token)]
        ELSE [http[i] EXCEPT !.auth = NoAuth]]
\* the requests of a call, made by the client whose token is `token`
Sign(http, token) ==
    [i \in DOMAIN http |->
        IF http[i].auth.scheme = "Bearer" THEN [http[i] EXCEPT !.auth = HBPAuth(token)]
        ELSE http[i]]
By(token, o) == [o EXCEPT !.http = Sign(@, token)]

NoData == [kind |-> "none"]
Exchange(method, path, query, data, r) ==
    [method |-> method, path |-> path, query |-> query, data |-> data,
     auth |-> HBPAuth("self.token"), status |-> r.status, body |-> r.body]
Get(path, query, r)        == Exchange("GET", path, query, NoData, r)
Post(path, query, data, r) == Exchange("POST", path, query, data, r)
Put(path, query, data, r)  == Exchange("PUT", path, query, data, r)

(***************************************************************************)
(* Outcomes.  err names the error raised: the kinds of the Exception(...)  *)
(* raise sites, or the Python built-in error an expression raises.         *)
(* carries says what of the response the message embeds: "content" (the    *)
(* body), "repr" (only str(response), i.e. "<Response [N]>"), "nothing".   *)
(* fx lists the call's other effects in order: prints, data-store calls.   *)
(***************************************************************************)
Return(http, val) ==
    [http |-> http, err |-> "none", carries |-> "nothing", returned |-> TRUE,
     val |-> val, fx |-> <<>>]
Raise(http, kind, carries) ==
    [http |-> http, err |-> kind, carries |-> carries, returned |-> FALSE,
     val |-> <<>>, fx |-> <<>>]
NoOutcome == Raise(<<>>, "none", "nothing")

\* str(response) != "<Response [200]>" passed: response.json()[key][0]
ParseFirst(http, what, r) ==
    IF ~r.body.json THEN Raise(http, "ValueError", "nothing")
    ELSE IF r.body.n = 0 THEN Raise(http, "IndexError", "nothing")
    ELSE Return(http, <<Item(what, 1)>>)

\* str(response) != "<Response [200]>" passed: response.json()[key]
ParseList(http, what, r) ==
    IF ~r.body.json THEN Raise(http, "ValueError", "nothing")
    ELSE Return(http, Items(what, r.body))

\* The url's query string after '?', as the list of its key=value pairs.
Query(pairs) == pairs \o << <<"format", "json">> >>

(***************************************************************************)
(* TestLibrary: retrieval.                                                 *)
(***************************************************************************)
get_test_definition(a, e) ==
    IF a.test_path = "" /\ a.test_id = "" /\ a.alias = ""
    THEN Raise(<<>>, "MissingIdentifier", "nothing")
    ELSE IF a.test_path # ""
    THEN IF e.file.isfile
         \* test_json is the value json.load returned, not a Response: either
         \* str(test_json) differs from "<Response [200]>" and building the
         \* message reads test_json.content, or test_json.json() is called.
         THEN Raise(<<>>, "AttributeError", "nothing")
         ELSE Raise(<<>>, "LocalFileError", "nothing")
    ELSE LET q    == IF a.test_id # "" THEN << <<"id", a.test_id>> >>
                                       ELSE << <<"alias", a.alias>> >>
             http == << Get("/validationtestdef/", Query(q), e.resp) >>
         IN  IF e.resp.status # 200
             THEN Raise(http, "RemoteRequestFailure", "content")
             ELSE ParseFirst(http, "test", e.resp)

get_test_instance(a, e) ==
    IF a.instance_path = "" /\ a.instance_id = ""
       /\ (a.test_id = "" \/ a.version = "") /\ (a.alias = "" \/ a.version = "")
    THEN Raise(<<>>, "MissingIdentifier", "nothing")
    ELSE IF a.instance_path # ""
    THEN IF e.file.isfile
         THEN Raise(<<>>, "AttributeError", "nothing")
         ELSE Raise(<<>>, "LocalFileError", "nothing")
    ELSE LET q == IF a.instance_id # "" THEN << <<"id", a.instance_id>> >>
                  ELSE IF a.test_id # "" /\ a.version # ""
                  THEN << <<"test_definition_id", a.test_id>>, <<"version", a.version>> >>
                  ELSE << <<"test_alias", a.alias>>, <<"version", a.version>> >>
             http == << Get("/validationtestscode/", Query(q), e.resp) >>
         IN  IF e.resp.status # 200
             THEN Raise(http, "RemoteRequestFailure", "content")
             ELSE ParseFirst(http, "test_instance", e.resp)

list_test_instances(a, e) ==
    IF a.instance_path = "" /\ a.test_id = "" /\ a.alias = ""
    THEN Raise(<<>>, "MissingIdentifier", "nothing")
    ELSE IF a.instance_path # "" /\ e.file.isfile
    THEN \* the loaded value is compared with "<Response [200]>" like a Response
         IF ~e.file.repr200 THEN Raise(<<>>, "RemoteRequestFailure", "repr")
         ELSE Raise(<<>>, "AttributeError", "nothing")
    ELSE LET q == IF a.test_id # "" THEN << <<"test_definition_id", a.test_id>> >>
                                    ELSE << <<"test_alias", a.alias>> >>
             http == << Get("/validationtestscode/", Query(q), e.resp) >>
         IN  IF e.resp.status # 200
             THEN Raise(http, "RemoteRequestFailure", "repr")
             ELSE ParseList(http, "test_instance", e.resp)

list_tests(a, e) ==
    LET http == << Get("/validationtestdef/", Query(a.filters), e.resp) >>
    IN  ParseList(http, "test", e.resp)    \* the status is not looked at

get_result(a, e) ==
    IF a.result_id = "" THEN Raise(<<>>, "MissingIdentifier", "nothing")
    ELSE IF a.order \notin {"test", "model", ""} THEN Raise(<<>>, "InvalidInput", "nothing")
    ELSE LET q    == << <<"id", a.result_id>>, <<"order", a.order>> >>
             http == << Get("/validationmodelresultrest2/", Query(q), e.resp) >>
         IN  IF e.resp.status # 200
             THEN Raise(http, "RemoteRequestFailure", "content")
             ELSE IF ~e.resp.body.json THEN Raise(http, "ValueError", "nothing")
             ELSE Return(http, <<Json("result", e.resp.body)>>)

list_results(a, e) ==
    IF a.order \notin {"test", "model", ""} THEN Raise(<<>>, "InvalidInput", "nothing")
    ELSE LET q    == << <<"order", a.order>> >> \o a.filters
             http == << Get("/validationmodelresultrest2/", Query(q), e.resp) >>
         IN  IF e.resp.status # 200
             THEN Raise(http, "RemoteRequestFailure", "content")
             ELSE IF ~e.resp.body.json THEN Raise(http, "ValueError", "nothing")
             ELSE Return(http, <<Json("result", e.resp.body)>>)


(***************************************************************************)
(* Option enumeration.  The service's answer to the options request is a   *)
(* JSON object keyed by the parameter names of get_options ("options"),    *)
(* some other JSON document ("other") or no JSON at all ("notjson").       *)
(***************************************************************************)
OptionKeys == {"cell_type", "test_type", "score_type", "brain_region",
               "model_type", "data_modalities", "species", "organization"}
OptionValues == {"a", "b"}
OptionBodies ==
    {[kind |-> "notjson", allowed |-> {}], [kind |-> "other", allowed |-> {}]}
    \cup {[kind |-> "options", allowed |-> S] : S \in {{"a"}, {"a", "b"}}}
OptionResponses == [status : Statuses, body : OptionBodies]

OptionsPath == "/authorizedcollabparameterrest/"
OptionsQuery(param) ==
    << <<"python_client", "true">>, <<"parameters", param>>, <<"format", "json">> >>

\* get_options answering from an option set retained from an earlier call
FetchOptionsRetained(param, r) ==
    LET http == << Get(OptionsPath, OptionsQuery(param), r) >>
    IN  IF r.body.kind = "notjson" THEN Raise(http, "ValueError", "nothing")
        ELSE Return(http, << [kind |-> "options", allowed |-> OptionValues] >>)
\* requests.get(url, auth=self.auth).json(), then ast.literal_eval(json.dumps(data))
FetchOptions(param, r) ==
    LET http == << Get(OptionsPath, OptionsQuery(param), r) >>
    IN  IF r.body.kind = "notjson" THEN Raise(http, "ValueError", "nothing")
        ELSE Return(http, <<r.body>>)

TestLibrary_get_options(a, e) ==
    LET param == IF a.param = "" THEN "all" ELSE a.param
    IN  IF param \in {"cell_type", "test_type", "score_type", "brain_region",
                      "model_type", "data_modalities", "species", "all"}
        THEN FetchOptions(param, e.opts)
        ELSE Raise(<<>>, "InvalidInput", "nothing")

\* values[key]: the key is present only in an "options" document
HasKey(values, key) == values.kind = "options" /\ key \in OptionKeys

\* The chain `if x not in values[k]: raise Exception(... + str(values[m]))`
\* over checks = <<[field, key, msgkey], ...>>: the error of the first check
\* that fails, "none" when all pass.
RECURSIVE Validate(_, _, _)
Validate(a, values, checks) ==
    IF checks = <<>> THEN "none"
    ELSE LET c == Head(checks)
         IN  IF ~HasKey(values, c.key) THEN "KeyError"
             ELSE IF a[c.field] \notin values.allowed
             THEN IF HasKey(values, c.msgkey) THEN "InvalidInput" ELSE "KeyError"
             ELSE Validate(a, values, Tail(checks))

Check(field, key, msgkey) == [field |-> field, key |-> key, msgkey |-> msgkey]

\* add_test without the score_type check
TestChecksLax ==
    << Check("species", "species", "species"),
       Check("brain_region", "brain_region", "brain_region"),
       Check("cell_type", "cell_type", "cell_type"),
       Check("data_modality", "data_modalities", "data_modality"),
       Check("test_type", "test_type", "test_type") >>

TestChecks ==
    << Check("species", "species", "species"),
       Check("brain_region", "brain_region", "brain_region"),
       Check("cell_type", "cell_type", "cell_type"),
       Check("data_modality", "data_modalities", "data_modality"),
       Check("test_type", "test_type", "test_type"),
       Check("score_type", "score_type", "score_type") >>

\* if alias == "": alias = None
NullAlias(alias) == IF alias = "" THEN "None" ELSE alias

\* The tail of every create/edit: success status -> response.json(),
\* otherwise raise Exception(... + str(response.json())).
JsonOrRaise(http, what, r, success) ==
    IF ~r.body.json THEN Raise(http, "ValueError", "nothing")
    ELSE IF r.status = success THEN Return(http, <<Json(what, r.body)>>)
    ELSE Raise(http, "RemoteRequestFailure", "content")

(***************************************************************************)
(* TestLibrary: creation and editing.                                      *)
(***************************************************************************)
add_test(a, e) ==
    LET o == FetchOptions("all", e.opts)
    IN  IF o.err # "none" THEN o
        ELSE LET v == Validate(a, o.val[1], TestChecks)
             IN  IF v # "none" THEN Raise(o.http, v, "nothing")
                 ELSE LET data == [test_data |-> [a EXCEPT !.alias = NullAlias(a.alias)],
                                   code_data |-> "version, repository, path"]
                          http == Append(o.http,
                                    Post("/validationtestdef/", Query(<<>>), data, e.resp))
                      IN  JsonOrRaise(http, "test", e.resp, 201)

edit_test(a, e) ==
    LET o == FetchOptions("all", e.opts)
    IN  IF o.err # "none" THEN o
        ELSE LET v == Validate(a, o.val[1], TestChecks)
             IN  IF v # "none" THEN Raise(o.http, v, "nothing")
                 ELSE LET data == [id |-> a.test_id,
                                   fields |-> [a EXCEPT !.alias = NullAlias(a.alias)]]
                          http == Append(o.http,
                                    Put("/validationtestdef/", Query(<<>>), data, e.resp))
                      IN  JsonOrRaise(http, "test", e.resp, 202)

add_test_instance(a, e) ==
    IF a.test_id = "" /\ a.alias = "" THEN Raise(<<>>, "MissingIdentifier", "nothing")
    ELSE IF a.test_id = "" THEN Raise(<<>>, "UnsupportedFeature", "nothing")
    ELSE LET data == << [test_definition_id |-> a.test_id, alias |-> a.alias,
                         version |-> a.version] >>
             http == << Post("/validationtestscode/", Query(<<>>), data, e.resp) >>
         IN  IF e.resp.status = 201
             THEN Return(http, <<Json("test_instance", e.resp.body)>>)  \* response.content
             ELSE Raise(http, "RemoteRequestFailure", "repr")

edit_test_instance(a, e) ==
    IF a.instance_id = ""
       /\ (a.test_id = "" \/ a.version = "") /\ (a.alias = "" \/ a.version = "")
    THEN Raise(<<>>, "MissingIdentifier", "nothing")
    ELSE LET q == IF a.instance_id # "" THEN << <<"id", a.instance_id>> >>
                  ELSE IF a.test_id # "" /\ a.version # ""
                  THEN << <<"test_definition_id", a.test_id>>, <<"version", a.version>> >>
                  ELSE << <<"test_alias", a.alias>>, <<"version", a.version>> >>
             data == << [instance_id |-> a.instance_id, test_definition_id |-> a.test_id,
                         alias |-> a.alias, version |-> a.version] >>
             http == << Put("/validationtestscode/", Query(q), data, e.resp) >>
         IN  IF e.resp.status = 202
             THEN Return(http, <<Json("test_instance", e.resp.body)>>)  \* response.content
             ELSE Raise(http, "RemoteRequestFailure", "content")


(***************************************************************************)
(* ModelCatalog: retrieval.                                                *)
(***************************************************************************)
\* get_model with the alias tested before the id
get_model_alias_first(a, e) ==
    IF a.model_id = "" /\ a.alias = "" THEN Raise(<<>>, "MissingIdentifier", "nothing")
    ELSE LET q    == IF a.alias # "" THEN << <<"alias", a.alias>> >>
                                     ELSE << <<"id", a.model_id>> >>
             http == << Get("/scientificmodel/", Query(q), e.resp) >>
         IN  IF e.resp.status # 200 THEN Raise(http, "RemoteRequestFailure", "repr")
             ELSE IF ~e.resp.body.json THEN Raise(http, "ValueError", "nothing")
             ELSE IF e.resp.body.n = 0 THEN Raise(http, "NoMatch", "content")
             ELSE Return(http, << [src |-> "server", what |-> "model", k |-> 1,
                                   instances |-> a.instances, images |-> a.images] >>)
get_model(a, e) ==
    IF a.model_id = "" /\ a.alias = "" THEN Raise(<<>>, "MissingIdentifier", "nothing")
    ELSE LET q    == IF a.model_id # "" THEN << <<"id", a.model_id>> >>
                                        ELSE << <<"alias", a.alias>> >>
             http == << Get("/scientificmodel/", Query(q), e.resp) >>
         IN  IF e.resp.status # 200 THEN Raise(http, "RemoteRequestFailure", "repr")
             ELSE IF ~e.resp.body.json THEN Raise(http, "ValueError", "nothing")
             ELSE IF e.resp.body.n = 0 THEN Raise(http, "NoMatch", "content")
             ELSE Return(http, << [src |-> "server", what |-> "model", k |-> 1,
                                   instances |-> a.instances, images |-> a.images] >>)

list_models(a, e) ==
    LET http == << Get("/scientificmodel/", Query(a.filters), e.resp) >>
    IN  ParseList(http, "model", e.resp)    \* the status is not looked at

ModelCatalog_get_options(a, e) ==
    LET param == IF a.param = "" THEN "all" ELSE a.param
    IN  IF param \in {"cell_type", "test_type", "score_type", "brain_region",
                      "model_type", "data_modalities", "species", "organization", "all"}
        THEN FetchOptions(param, e.opts)
        ELSE Raise(<<>>, "InvalidInput", "nothing")

get_model_instance(a, e) ==
    IF a.instance_path = "" /\ a.instance_id = ""
       /\ (a.model_id = "" \/ a.version = "") /\ (a.alias = "" \/ a.version = "")
    THEN Raise(<<>>, "MissingIdentifier", "nothing")
    ELSE IF a.instance_path # "" /\ e.file.isfile
    THEN IF ~e.file.repr200 THEN Raise(<<>>, "RemoteRequestFailure", "repr")
         ELSE Raise(<<>>, "AttributeError", "nothing")
    ELSE LET q == IF a.instance_id # "" THEN << <<"id", a.instance_id>> >>
                  ELSE IF a.model_id # "" /\ a.version # ""
                  THEN << <<"model_id", a.model_id>>, <<"version", a.version>> >>
                  ELSE << <<"model_alias", a.alias>>, <<"version", a.version>> >>
             http == << Get("/scientificmodelinstance/", Query(q), e.resp) >>
         IN  IF e.resp.status # 200 THEN Raise(http, "RemoteRequestFailure", "repr")
             ELSE IF ~e.resp.body.json THEN Raise(http, "ValueError", "nothing")
             ELSE IF e.resp.body.n = 0 THEN Raise(http, "NoMatch", "nothing")
             ELSE Return(http, <<Item("model_instance", 1)>>)

list_model_instances(a, e) ==
    IF a.instance_path = "" /\ a.model_id = "" /\ a.alias = ""
    THEN Raise(<<>>, "MissingIdentifier", "nothing")
    ELSE IF a.instance_path # "" /\ e.file.isfile
    THEN IF ~e.file.repr200 THEN Raise(<<>>, "RemoteRequestFailure", "repr")
         ELSE Raise(<<>>, "AttributeError", "nothing")
    ELSE LET q == IF a.model_id # "" THEN << <<"model_id", a.model_id>> >>
                                     ELSE << <<"model_alias", a.alias>> >>
             http == << Get("/scientificmodelinstance/", Query(q), e.resp) >>
         IN  IF e.resp.status # 200 THEN Raise(http, "RemoteRequestFailure", "repr")
             ELSE ParseList(http, "model_instance", e.resp)

\* get_model_image without the image_id check
get_model_image_unchecked(a, e) ==
    LET http == << Get("/scientificmodelimage/", Query(<< <<"id", a.image_id>> >>),
                       e.resp) >>
    IN  IF e.resp.status # 200 THEN Raise(http, "RemoteRequestFailure", "repr")
        ELSE ParseFirst(http, "model_image", e.resp)

get_model_image(a, e) ==
    IF a.image_id = "" THEN Raise(<<>>, "MissingIdentifier", "nothing")
    ELSE LET http == << Get("/scientificmodelimage/", Query(<< <<"id", a.image_id>> >>),
                            e.resp) >>
         IN  IF e.resp.status # 200 THEN Raise(http, "RemoteRequestFailure", "repr")
             ELSE ParseFirst(http, "model_image", e.resp)

list_model_images(a, e) ==
    IF a.model_id = "" /\ a.alias = "" THEN Raise(<<>>, "MissingIdentifier", "nothing")
    ELSE LET q == IF a.model_id # "" THEN << <<"model_id", a.model_id>> >>
                                     ELSE << <<"model_alias", a.alias>> >>
             http == << Get("/scientificmodelimage/", Query(q), e.resp) >>
         IN  IF e.resp.status # 200 THEN Raise(http, "RemoteRequestFailure", "content")
             ELSE ParseList(http, "model_image", e.resp)

(***************************************************************************)
(* ModelCatalog: creation and editing.                                     *)
(***************************************************************************)
\* the model validation without the species check
ModelChecksLax ==
    << Check("cell_type", "cell_type", "cell_type"),
       Check("model_type", "model_type", "model_type"),
       Check("brain_region", "brain_region", "brain_region") >>

ModelChecks ==
    << Check("cell_type", "cell_type", "cell_type"),
       Check("model_type", "model_type", "model_type"),
       Check("brain_region", "brain_region", "brain_region"),
       Check("species", "species", "species") >>

RegisterChecks ==
    Append(ModelChecks, Check("organization", "organization", "organization"))

\* `private not in [True, False]`: the booleans pass, the string "False" does not
PrivateValues == {"True", "False", "'False'"}
PrivateOk(private) == private \in {"True", "False"}
\* the declared default of edit_model's `private` parameter and the value of
\* register_model's documented example: the string "False"
PrivateDefault == "'False'"

register_model(a, e) ==
    LET o == FetchOptions("all", e.opts)
    IN  IF o.err # "none" THEN o
        ELSE LET v == Validate(a, o.val[1], RegisterChecks)
             IN  IF v # "none" THEN Raise(o.http, v, "nothing")
                 ELSE IF ~PrivateOk(a.private) THEN Raise(o.http, "InvalidInput", "nothing")
                 ELSE LET data == [model |-> a, model_instance |-> a.instances,
                                   model_image |-> "images"]
                          q    == << <<"app_id", a.app_id>> >>
                          http == Append(o.http,
                                    Post("/scientificmodel/", Query(q), data, e.resp))
                      IN  JsonOrRaise(http, "model", e.resp, 201)

edit_model(a, e) ==
    LET o == FetchOptions("all", e.opts)
    IN  IF o.err # "none" THEN o
        ELSE LET v == Validate(a, o.val[1], ModelChecks)
             IN  IF v # "none" THEN Raise(o.http, v, "nothing")
                 ELSE IF ~PrivateOk(a.private) THEN Raise(o.http, "InvalidInput", "nothing")
                 ELSE LET data == [models |-> << [id |-> a.model_id, fields |-> a] >>]
                          q    == << <<"app_id", a.app_id>> >>
                          http == Append(o.http,
                                    Put("/scientificmodel/", Query(q), data, e.resp))
                      IN  JsonOrRaise(http, "model", e.resp, 202)

add_model_instance(a, e) ==
    IF a.model_id = "" /\ a.alias = "" THEN Raise(<<>>, "MissingIdentifier", "nothing")
    ELSE IF a.model_id = "" THEN Raise(<<>>, "UnsupportedFeature", "nothing")
    ELSE LET http == << Post("/scientificmodelinstance/", Query(<<>>), <<a>>, e.resp) >>
         IN  JsonOrRaise(http, "model_instance", e.resp, 201)

edit_model_instance(a, e) ==
    IF a.instance_id = ""
       /\ (a.model_id = "" \/ a.version = "") /\ (a.alias = "" \/ a.version = "")
    THEN Raise(<<>>, "MissingIdentifier", "nothing")
    ELSE LET q == IF a.instance_id # "" THEN << <<"id", a.instance_id>> >>
                  ELSE IF a.model_id # "" /\ a.version # ""
                  THEN << <<"model_id", a.model_id>>, <<"version", a.version>> >>
                  ELSE << <<"test_alias", a.alias>>, <<"version", a.version>> >>
             http == << Put("/scientificmodelinstance/", Query(q), <<a>>, e.resp) >>
         IN  JsonOrRaise(http, "model_instance", e.resp, 202)

\* add_model_image with the alias branch of line 1683 enabled
add_model_image_by_alias(a, e) ==
    IF a.model_id = "" /\ a.alias = "" THEN Raise(<<>>, "MissingIdentifier", "nothing")
    ELSE LET data == << [model_id |-> a.model_id, url |-> "url", caption |-> "caption"] >>
             query == IF a.model_id = "" THEN Query(<< <<"alias", a.alias>> >>)
                      ELSE Query(<<>>)
             http == << Post("/scientificmodelimage/", query, data, e.resp) >>
         IN  JsonOrRaise(http, "model_image", e.resp, 201)
add_model_image(a, e) ==
    IF a.model_id = "" /\ a.alias = "" THEN Raise(<<>>, "MissingIdentifier", "nothing")
    ELSE IF a.model_id = "" THEN Raise(<<>>, "UnsupportedFeature", "nothing")
    ELSE LET data == << [model_id |-> a.model_id, url |-> "url", caption |-> "caption"] >>
             http == << Post("/scientificmodelimage/", Query(<<>>), data, e.resp) >>
         IN  JsonOrRaise(http, "model_image", e.resp, 201)

edit_model_image(a, e) ==
    IF a.image_id = "" THEN Raise(<<>>, "MissingIdentifier", "nothing")
    ELSE LET data == << [id |-> a.image_id, url |-> "url", caption |-> "caption"] >>
             http == << Put("/scientificmodelimage/", Query(<< <<"id", a.image_id>> >>),
                            data, e.resp) >>
         IN  JsonOrRaise(http, "model_image", e.resp, 202)


(***************************************************************************)
(* Platform information.                                                   *)
(***************************************************************************)
Probes      == {"ok", "URLError", "timeout"}    \* outcome of urlopen(..., timeout=1)
Resolutions == {"ok", "gaierror"}               \* outcome of socket.gethostbyname

_have_internet_connection(probe) == probe = "ok"

\* _get_platform without the connectivity probe
_get_platform_unprobed(e) ==
    [network_name |-> "node",
     ip_addr |-> IF e.resolve = "ok" THEN "resolved" ELSE "127.0.0.1",
     resolved |-> TRUE]
_get_platform(e) ==
    [network_name |-> "node",
     ip_addr |-> IF _have_internet_connection(e.probe)
                 THEN IF e.resolve = "ok" THEN "resolved" ELSE "127.0.0.1"
                 ELSE "127.0.0.1",
     resolved |-> _have_internet_connection(e.probe)]   \* gethostbyname was called

(***************************************************************************)
(* Data stores (hbp_validation_framework.datastores): a store has an       *)
(* authorized flag and a collab_id; authorize(auth) sets the flag;         *)
(* upload_data(files) returns a storage locator.                           *)
(***************************************************************************)
NoStore == [given |-> FALSE, authorized |-> FALSE, collab_id |-> "None"]
CollabDataStore(collab_id, authorized) ==
    [given |-> TRUE, authorized |-> authorized, collab_id |-> collab_id]

(***************************************************************************)
(* TestLibrary.register_result.  tr is the score: tr.model_id is the id    *)
(* attribute of its model ("missing" when the model has no such            *)
(* attribute), tr.related the keys of related_data, tr.project the value   *)
(* under "project".                                                        *)
(***************************************************************************)
\* register_result without the authorize call of line 945
register_result_unauthorized(a, e) ==
    LET tr == a.test_result
        ds == a.data_store
        fx1 == <<>>
        fx2 == IF ds.given THEN Append(fx1, "upload_data") ELSE fx1
        results_storage == IF ds.given THEN "locator" ELSE ""
        Fail(kind, fx) == [Raise(<<>>, kind, "nothing") EXCEPT !.fx = fx]
    IN  IF ds.given /\ ds.collab_id = "None" THEN Fail("NameError", fx1)  \* `project`
        ELSE IF ds.given /\ "figures" \notin tr.related THEN Fail("KeyError", fx1)
        ELSE IF tr.model_id = "missing" THEN Fail("AttributeError", fx2)
        ELSE IF "project" \notin tr.related THEN Fail("KeyError", fx2)
        ELSE LET result_json ==
                     [model_version_id |-> tr.model_id,
                      test_code_id |-> tr.test_id,
                      results_storage |-> results_storage,
                      score |-> "score",
                      passed |-> IF "passed" \in tr.related THEN "passed" ELSE "None",
                      platform |-> _get_platform(e),
                      project |-> tr.project,
                      normalized_score |-> "score"]
                 http == << Post("/validationmodelresultrest2/", Query(<<>>),
                                 <<result_json>>, e.resp) >>
             \* the response's status is not looked at
             IN  [Return(http, <<>>) EXCEPT !.fx = Append(fx2, "print Result Registered!")]
register_result(a, e) ==
    LET tr == a.test_result
        ds == a.data_store
        fx1 == IF ds.given /\ ~ds.authorized THEN <<"authorize">> ELSE <<>>
        fx2 == IF ds.given THEN Append(fx1, "upload_data") ELSE fx1
        results_storage == IF ds.given THEN "locator" ELSE ""
        Fail(kind, fx) == [Raise(<<>>, kind, "nothing") EXCEPT !.fx = fx]
    IN  IF ds.given /\ ds.collab_id = "None" THEN Fail("NameError", fx1)  \* `project`
        ELSE IF ds.given /\ "figures" \notin tr.related THEN Fail("KeyError", fx1)
        ELSE IF tr.model_id = "missing" THEN Fail("AttributeError", fx2)
        ELSE IF "project" \notin tr.related THEN Fail("KeyError", fx2)
        ELSE LET result_json ==
                     [model_version_id |-> tr.model_id,
                      test_code_id |-> tr.test_id,
                      results_storage |-> results_storage,
                      score |-> "score",
                      passed |-> IF "passed" \in tr.related THEN "passed" ELSE "None",
                      platform |-> _get_platform(e),
                      project |-> tr.project,
                      normalized_score |-> "score"]
                 http == << Post("/validationmodelresultrest2/", Query(<<>>),
                                 <<result_json>>, e.resp) >>
             \* the response's status is not looked at
             IN  [Return(http, <<>>) EXCEPT !.fx = Append(fx2, "print Result Registered!")]


(***************************************************************************)
(* TestLibrary.get_validation_test.                                        *)
(***************************************************************************)
\* The fields the code reads from the entities the service returns.
ServerFields ==
    [test_instance  |-> [id |-> "ti9", test_definition_id |-> "td9", path |-> "pkg.Cls"],
     test           |-> [id |-> "td9", data_location |-> "collab://obs"],
     model_instance |-> [id |-> "mi9", model_id |-> "m9"],
     model          |-> [name |-> "mname", collab_id |-> "c9"]]
FileFields ==
    [test_instance  |-> [id |-> "tiF", test_definition_id |-> "tdF", path |-> "pkg.Cls"],
     test           |-> [id |-> "tdF", data_location |-> "collab://obs"]]
Field(item, name) ==
    IF item.src = "file" THEN FileFields[item.what][name]
    ELSE ServerFields[item.what][name]

\* Observation values as the data store delivers them: a nested record, or
\* the strings "5", "2.5", "-65 mV", "abc".
ObsValues == {"dict", "5", "2.5", "-65 mV", "abc"}
Observations == UNION {[1..n -> ObsValues] : n \in 0..MaxObs}

\* the strings int(), float() and Quantity(float(parts[0]), units) accept:
\* float("5") is 5.0, and a string without a space is a dimensionless quantity
IntParses(v)      == v \in {"5"}
FloatParses(v)    == v \in {"5", "2.5"}
QuantityParses(v) == v \in {"5", "2.5", "-65 mV"}

\* the coercion with float tried before int
CoerceValueFloatFirst(v) ==
    IF v = "dict" THEN [err |-> "TypeError", type |-> "none", of |-> v]
    ELSE IF FloatParses(v) THEN [err |-> "none", type |-> "float", of |-> v]
    ELSE IF IntParses(v) THEN [err |-> "none", type |-> "int", of |-> v]
    ELSE IF QuantityParses(v) THEN [err |-> "none", type |-> "Quantity", of |-> v]
    ELSE [err |-> "ValueError", type |-> "none", of |-> v]
\* int(val), else float(val), else Quantity(float(parts[0]), units);
\* int(<dict>) raises TypeError, which the except clauses do not catch
CoerceValue(v) ==
    IF v = "dict" THEN [err |-> "TypeError", type |-> "none", of |-> v]
    ELSE IF IntParses(v) THEN [err |-> "none", type |-> "int", of |-> v]
    ELSE IF FloatParses(v) THEN [err |-> "none", type |-> "float", of |-> v]
    ELSE IF QuantityParses(v) THEN [err |-> "none", type |-> "Quantity", of |-> v]
    ELSE [err |-> "ValueError", type |-> "none", of |-> v]

\* The observations dict built from observation_data (in iteration order).
CoerceAll(obs) == [i \in 1..Len(obs) |-> CoerceValue(obs[i])]
CoerceError(obs) ==
    IF obs = <<>> THEN "IndexError"             \* observation_data.values()[0]
    ELSE IF obs[1] = "dict" THEN "none"
    ELSE IF \E i \in 1..Len(obs) : CoerceValue(obs[i]).err # "none"
    THEN LET i == CHOOSE i \in 1..Len(obs) :
                      /\ CoerceValue(obs[i]).err # "none"
                      /\ \A j \in 1..(i-1) : CoerceValue(obs[j]).err = "none"
         IN  CoerceValue(obs[i]).err
    ELSE "none"
Coerce(obs) ==
    IF obs[1] = "dict" THEN [i \in 1..Len(obs) |-> [err |-> "none", type |-> "asis", of |-> obs[i]]]
    ELSE CoerceAll(obs)

\* import_module / getattr, then URI_SCHEME_MAP[scheme](auth).load_data(uri)
Loads == {"ok", "ImportError", "KeyError"}

LoadTest(http, ti, e) ==
    IF e.load # "ok" THEN Raise(http, e.load, "nothing")
    ELSE IF CoerceError(e.obs) # "none" THEN Raise(http, CoerceError(e.obs), "nothing")
    ELSE Return(http, << [what |-> "sciunit.Test", id |-> Field(ti, "id"),
                          observations |-> Coerce(e.obs)] >>)

\* get_validation_test preferring the caller's test_id to the instance's
get_validation_test_own_id(a, e) ==
    IF a.test_path = "" /\ a.instance_id = "" /\ a.test_id = "" /\ a.alias = ""
    THEN Raise(<<>>, "MissingIdentifier", "nothing")
    ELSE IF a.instance_path = "" /\ a.instance_id = "" /\ a.version = ""
    THEN Raise(<<>>, "MissingIdentifier", "nothing")
    ELSE IF a.instance_id # ""
    THEN LET ti == get_test_instance(
                     [instance_path |-> a.instance_path, instance_id |-> a.instance_id,
                      test_id |-> "", alias |-> "", version |-> ""],
                     [file |-> e.ifile, resp |-> e.iresp])
         IN  IF ti.err # "none" THEN ti
             ELSE LET td == get_test_definition(
                              [test_path |-> a.test_path,
                               test_id |-> IF a.test_id # "" THEN a.test_id
                                           ELSE Field(ti.val[1], "test_definition_id"),
                               alias |-> ""],
                              [file |-> e.tfile, resp |-> e.tresp])
                      http == ti.http \o td.http
                  IN  IF td.err # "none" THEN [td EXCEPT !.http = http]
                      ELSE LoadTest(http, ti.val[1], e)
    ELSE LET td == get_test_definition(
                     [test_path |-> a.test_path, test_id |-> a.test_id, alias |-> a.alias],
                     [file |-> e.tfile, resp |-> e.tresp])
         IN  IF td.err # "none" THEN td
             ELSE LET ti == get_test_instance(
                              [instance_path |-> a.instance_path,
                               instance_id |-> a.instance_id,
                               test_id |-> Field(td.val[1], "id"),
                               alias |-> "", version |-> a.version],
                              [file |-> e.ifile, resp |-> e.iresp])
                      http == td.http \o ti.http
                  IN  IF ti.err # "none" THEN [ti EXCEPT !.http = http]
                      ELSE LoadTest(http, ti.val[1], e)
get_validation_test(a, e) ==
    IF a.test_path = "" /\ a.instance_id = "" /\ a.test_id = "" /\ a.alias = ""
    THEN Raise(<<>>, "MissingIdentifier", "nothing")
    ELSE IF a.instance_path = "" /\ a.instance_id = "" /\ a.version = ""
    THEN Raise(<<>>, "MissingIdentifier", "nothing")
    ELSE IF a.instance_id # ""
    THEN LET ti == get_test_instance(
                     [instance_path |-> a.instance_path, instance_id |-> a.instance_id,
                      test_id |-> "", alias |-> "", version |-> ""],
                     [file |-> e.ifile, resp |-> e.iresp])
         IN  IF ti.err # "none" THEN ti
             ELSE LET td == get_test_definition(
                              [test_path |-> a.test_path,
                               test_id |-> Field(ti.val[1], "test_definition_id"),
                               alias |-> ""],
                              [file |-> e.tfile, resp |-> e.tresp])
                      http == ti.http \o td.http
                  IN  IF td.err # "none" THEN [td EXCEPT !.http = http]
                      ELSE LoadTest(http, ti.val[1], e)
    ELSE LET td == get_test_definition(
                     [test_path |-> a.test_path, test_id |-> a.test_id, alias |-> a.alias],
                     [file |-> e.tfile, resp |-> e.tresp])
         IN  IF td.err # "none" THEN td
             ELSE LET ti == get_test_instance(
                              [instance_path |-> a.instance_path,
                               instance_id |-> a.instance_id,
                               test_id |-> Field(td.val[1], "id"),
                               alias |-> "", version |-> a.version],
                              [file |-> e.ifile, resp |-> e.iresp])
                      http == td.http \o ti.http
                  IN  IF ti.err # "none" THEN [ti EXCEPT !.http = http]
                      ELSE LoadTest(http, ti.val[1], e)


(***************************************************************************)
(* BaseClient: password resolution and the login protocol.                 *)
(* r1, r2: responses of the initiation GET and of the identity-provider    *)
(* GET (status, presence of the Location and Set-Cookie headers);          *)
(* r3: whether the login page has text; r4: the outcome of the credential  *)
(* POST after redirects (status, final url, body).                         *)
(***************************************************************************)
LoginStatuses == {200, 302, 500}
Redirects == [status : LoginStatuses, location : BOOLEAN, cookie : BOOLEAN]
Pages     == [text : BOOLEAN]
Finals    == [status : {200, 500}, url : {"config.json", "error", "other"},
              json : BOOLEAN, token : {"None", "t1", "t2"}]

\* the cookie header of the session: the set of cookies it holds
NoCookies == {}
\* a header update that keeps the cookies already held
update_merging(cookies, cookie) == cookies \cup {cookie}
\* self.session.headers.update({'cookie': cookie}): the new value replaces the old
update(cookies, cookie) == {cookie}

LoginExchange(method, path, cookie, status) ==
    [method |-> method, path |-> path, query |-> <<>>, data |-> NoData,
     auth |-> NoAuth, cookie |-> cookie, status |-> status]

\* _hbp_auth going on after a step-4 status other than 302 (line 97)
_hbp_auth_no_abort(e) ==
    LET x1 == << LoginExchange("GET", "/login/hbp/", NoCookies, e.r1.status) >>
        \* r1.headers.get('location') is None when the header is absent
        url1 == IF e.r1.status = 302 /\ ~e.r1.location THEN "None" ELSE "authorize"
        x2 == Append(x1, LoginExchange("GET", url1, update(NoCookies, "cookie1"), e.r2.status))
        url2 == IF e.r2.location THEN "login page" ELSE "None"
        \* session.headers.update({'cookie': cookie}) replaces the header
        x3 == Append(x2, LoginExchange("GET", url2, update(update(NoCookies, "cookie1"), "cookie2"), 200))
        x4 == Append(x3, LoginExchange("POST", "/oidc/j_spring_security_check",
                                       update(update(NoCookies, "cookie1"), "cookie2"),
                                       e.r4.status))
    IN  IF e.r1.status \notin {302, 200} THEN Raise(x1, "AuthenticationFailure", "repr")
        ELSE IF ~e.r1.cookie THEN Raise(x1, "AttributeError", "nothing")
        ELSE IF url1 = "None" THEN Raise(x1, "MissingSchema", "nothing")
        ELSE IF ~e.r2.cookie THEN Raise(x2, "AttributeError", "nothing")
        ELSE IF url2 = "None" THEN Raise(x2, "MissingSchema", "nothing")
        ELSE IF ~e.r3.text THEN Raise(x3, "AuthenticationFailure", "nothing")
        ELSE IF e.r4.status # 200 THEN Raise(x4, "AuthenticationFailure", "nothing")
        ELSE IF e.r4.url # "config.json" THEN Raise(x4, "AuthenticationFailure", "repr")
        ELSE IF ~e.r4.json THEN Raise(x4, "ValueError", "nothing")
        ELSE IF e.r4.token = "None" THEN Raise(x4, "KeyError", "nothing")
        ELSE Return(x4, << [token |-> e.r4.token] >>)
\* _hbp_auth without the check of the final url (line 126)
_hbp_auth_any_url(e) ==
    LET x1 == << LoginExchange("GET", "/login/hbp/", NoCookies, e.r1.status) >>
        \* r1.headers.get('location') is None when the header is absent
        url1 == IF e.r1.status = 302 /\ ~e.r1.location THEN "None" ELSE "authorize"
        x2 == Append(x1, LoginExchange("GET", url1, update(NoCookies, "cookie1"), e.r2.status))
        url2 == IF e.r2.location THEN "login page" ELSE "None"
        \* session.headers.update({'cookie': cookie}) replaces the header
        x3 == Append(x2, LoginExchange("GET", url2, update(update(NoCookies, "cookie1"), "cookie2"), 200))
        x4 == Append(x3, LoginExchange("POST", "/oidc/j_spring_security_check",
                                       update(update(NoCookies, "cookie1"), "cookie2"),
                                       e.r4.status))
    IN  IF e.r1.status \notin {302, 200} THEN Raise(x1, "AuthenticationFailure", "repr")
        ELSE IF ~e.r1.cookie THEN Raise(x1, "AttributeError", "nothing")
        ELSE IF url1 = "None" THEN Raise(x1, "MissingSchema", "nothing")
        ELSE IF e.r2.status # 302 THEN Raise(x2, "AuthenticationFailure", "repr")
        ELSE IF ~e.r2.cookie THEN Raise(x2, "AttributeError", "nothing")
        ELSE IF url2 = "None" THEN Raise(x2, "MissingSchema", "nothing")
        ELSE IF ~e.r3.text THEN Raise(x3, "AuthenticationFailure", "nothing")
        ELSE IF e.r4.status # 200 THEN Raise(x4, "AuthenticationFailure", "nothing")
        ELSE IF ~e.r4.json THEN Raise(x4, "ValueError", "nothing")
        ELSE IF e.r4.token = "None" THEN Raise(x4, "KeyError", "nothing")
        ELSE Return(x4, << [token |-> e.r4.token] >>)
_hbp_auth(e) ==
    LET x1 == << LoginExchange("GET", "/login/hbp/", NoCookies, e.r1.status) >>
        \* r1.headers.get('location') is None when the header is absent
        url1 == IF e.r1.status = 302 /\ ~e.r1.location THEN "None" ELSE "authorize"
        x2 == Append(x1, LoginExchange("GET", url1, update(NoCookies, "cookie1"), e.r2.status))
        url2 == IF e.r2.location THEN "login page" ELSE "None"
        \* session.headers.update({'cookie': cookie}) replaces the header
        x3 == Append(x2, LoginExchange("GET", url2, update(update(NoCookies, "cookie1"), "cookie2"), 200))
        x4 == Append(x3, LoginExchange("POST", "/oidc/j_spring_security_check",
                                       update(update(NoCookies, "cookie1"), "cookie2"),
                                       e.r4.status))
    IN  IF e.r1.status \notin {302, 200} THEN Raise(x1, "AuthenticationFailure", "repr")
        ELSE IF ~e.r1.cookie THEN Raise(x1, "AttributeError", "nothing")
        ELSE IF url1 = "None" THEN Raise(x1, "MissingSchema", "nothing")
        ELSE IF e.r2.status # 302 THEN Raise(x2, "AuthenticationFailure", "repr")
        ELSE IF ~e.r2.cookie THEN Raise(x2, "AttributeError", "nothing")
        ELSE IF url2 = "None" THEN Raise(x2, "MissingSchema", "nothing")
        ELSE IF ~e.r3.text THEN Raise(x3, "AuthenticationFailure", "nothing")
        ELSE IF e.r4.status # 200 THEN Raise(x4, "AuthenticationFailure", "nothing")
        ELSE IF e.r4.url # "config.json" THEN Raise(x4, "AuthenticationFailure", "repr")
        ELSE IF ~e.r4.json THEN Raise(x4, "ValueError", "nothing")
        ELSE IF e.r4.token = "None" THEN Raise(x4, "KeyError", "nothing")
        ELSE Return(x4, << [token |-> e.r4.token] >>)

\* the credential POST carries the password in its form data
WithPassword(http, password) ==
    [i \in DOMAIN http |->
        IF http[i].method = "POST"
        THEN [http[i] EXCEPT !.data = [kind |-> "form", j_password |-> password]]
        ELSE http[i]]
\* __init__ with the environment variable consulted before the argument
BaseClient_init_env_first(a, e) ==
    LET fx == IF e.envpass # "None" THEN <<"environ HBP_PASS">>
              ELSE IF a.password # "None" THEN <<"environ HBP_PASS">>
              ELSE <<"environ HBP_PASS", "getpass">>
        password == IF e.envpass # "None" THEN e.envpass
                    ELSE IF a.password # "None" THEN a.password
                    ELSE "typed"
    IN  [_hbp_auth(e) EXCEPT !.fx = fx, !.http = WithPassword(@, password)]
\* __init__: password argument, else os.environ HBP_PASS, else getpass
BaseClient_init(a, e) ==
    LET fx == IF a.password # "None" THEN <<>>
              ELSE IF e.envpass # "None" THEN <<"environ HBP_PASS">>
              ELSE <<"environ HBP_PASS", "getpass">>
        password == IF a.password # "None" THEN a.password
                    ELSE IF e.envpass # "None" THEN e.envpass
                    ELSE "typed"
    IN  [_hbp_auth(e) EXCEPT !.fx = fx, !.http = WithPassword(@, password)]

LoginOk ==
    [envpass |-> "None",
     r1 |-> [status |-> 302, location |-> TRUE, cookie |-> TRUE],
     r2 |-> [status |-> 302, location |-> TRUE, cookie |-> TRUE],
     r3 |-> [text |-> TRUE],
     r4 |-> [status |-> 200, url |-> "config.json", json |-> TRUE, token |-> "t1"]]
LoginOther   == [LoginOk EXCEPT !.r4.token = "t2"]
LoginRefused == [LoginOk EXCEPT !.r4.url = "error"]


(***************************************************************************)
(* The caller: one call at a time.  Arguments and the environment's        *)
(* answers are drawn from the sets below; an answer nobody asked for is    *)
(* recorded as NoFile / NoResp.                                            *)
(***************************************************************************)
FilesFor(path) == IF path = "" THEN {NoFile} ELSE Files
WriteResponses == [status : Statuses, body : [json : BOOLEAN, n : {0}]]
Filters == {<<>>, << <<"cell_type", "a">> >>}
Orders  == {"", "test", "model", "other"}
NoOpts  == [status |-> 0, body |-> [kind |-> "notjson", allowed |-> {}]]

Call(name, a, e, o) ==
    /\ client.token # "none"
    /\ pc' = "done"
    /\ op' = name
    /\ args' = a
    /\ env' = e
    /\ out' = By(client.token, o)
    /\ UNCHANGED <<rt, client>>

\* env of a call that consults at most a local file and one response
FileResp(f, r, o) == [file |-> f, resp |-> IF o.http = <<>> THEN NoResp ELSE r]
\* env of a call that fetches the options and then sends one more request
OptsResp(v, r, o) == [opts |-> v, resp |-> IF Len(o.http) < 2 THEN NoResp ELSE r]

GetTestDefinition ==
    /\ pc = "idle"
    /\ \E a \in [test_path : Paths, test_id : Ids, alias : Aliases] :
       \E f \in FilesFor(a.test_path), r \in Responses :
           LET o == get_test_definition(a, [file |-> f, resp |-> r])
           IN  Call("get_test_definition", a, FileResp(f, r, o), o)

GetTestInstance ==
    /\ pc = "idle"
    /\ \E a \in [instance_path : Paths, instance_id : Ids, test_id : Ids,
                 alias : Aliases, version : Versions] :
       \E f \in FilesFor(a.instance_path), r \in Responses :
           LET o == get_test_instance(a, [file |-> f, resp |-> r])
           IN  Call("get_test_instance", a, FileResp(f, r, o), o)

ListTestInstances ==
    /\ pc = "idle"
    /\ \E a \in [instance_path : Paths, test_id : Ids, alias : Aliases] :
       \E f \in FilesFor(a.instance_path), r \in Responses :
           LET o == list_test_instances(a, [file |-> f, resp |-> r])
           IN  Call("list_test_instances", a, FileResp(f, r, o), o)

ListTests ==
    /\ pc = "idle"
    /\ \E a \in [filters : Filters], r \in Responses :
           LET o == list_tests(a, [resp |-> r])
           IN  Call("list_tests", a, FileResp(NoFile, r, o), o)

GetResult ==
    /\ pc = "idle"
    /\ \E a \in [result_id : Ids, order : Orders], r \in Responses :
           LET o == get_result(a, [resp |-> r])
           IN  Call("get_result", a, FileResp(NoFile, r, o), o)

ListResults ==
    /\ pc = "idle"
    /\ \E a \in [order : Orders, filters : Filters], r \in Responses :
           LET o == list_results(a, [resp |-> r])
           IN  Call("list_results", a, FileResp(NoFile, r, o), o)

TestLibraryGetOptions ==
    /\ pc = "idle"
    /\ \E a \in [param : {"", "species", "organization", "bogus"}], v \in OptionResponses :
           LET o == TestLibrary_get_options(a, [opts |-> v])
           IN  Call("TestLibrary.get_options", a,
                    [opts |-> IF o.http = <<>> THEN NoOpts ELSE v], o)

AddTestArgs ==
    [alias : Aliases, species : OptionValues, brain_region : OptionValues,
     cell_type : OptionValues, data_modality : OptionValues, test_type : OptionValues,
     score_type : OptionValues]
EditTestArgs ==
    [test_id : Ids, alias : Aliases, species : OptionValues, brain_region : OptionValues,
     cell_type : OptionValues, data_modality : OptionValues, test_type : OptionValues,
     score_type : OptionValues]

AddTest ==
    /\ pc = "idle"
    /\ \E a \in AddTestArgs, v \in OptionResponses, r \in WriteResponses :
           LET o == add_test(a, [opts |-> v, resp |-> r])
           IN  Call("add_test", a, OptsResp(v, r, o), o)

EditTest ==
    /\ pc = "idle"
    /\ \E a \in EditTestArgs, v \in OptionResponses, r \in WriteResponses :
           LET o == edit_test(a, [opts |-> v, resp |-> r])
           IN  Call("edit_test", a, OptsResp(v, r, o), o)

AddTestInstance ==
    /\ pc = "idle"
    /\ \E a \in [test_id : Ids, alias : Aliases, version : Versions], r \in WriteResponses :
           LET o == add_test_instance(a, [resp |-> r])
           IN  Call("add_test_instance", a, FileResp(NoFile, r, o), o)

EditTestInstance ==
    /\ pc = "idle"
    /\ \E a \in [instance_id : Ids, test_id : Ids, alias : Aliases, version : Versions],
          r \in WriteResponses :
           LET o == edit_test_instance(a, [resp |-> r])
           IN  Call("edit_test_instance", a, FileResp(NoFile, r, o), o)

GetModel ==
    /\ pc = "idle"
    /\ \E a \in [model_id : Ids, alias : Aliases, instances : BOOLEAN, images : BOOLEAN],
          r \in Responses :
           LET o == get_model(a, [resp |-> r])
           IN  Call("get_model", a, FileResp(NoFile, r, o), o)

ListModels ==
    /\ pc = "idle"
    /\ \E a \in [filters : Filters], r \in Responses :
           LET o == list_models(a, [resp |-> r])
           IN  Call("list_models", a, FileResp(NoFile, r, o), o)

ModelCatalogGetOptions ==
    /\ pc = "idle"
    /\ \E a \in [param : {"", "species", "organization", "bogus"}], v \in OptionResponses :
           LET o == ModelCatalog_get_options(a, [opts |-> v])
           IN  Call("ModelCatalog.get_options", a,
                    [opts |-> IF o.http = <<>> THEN NoOpts ELSE v], o)

GetModelInstance ==
    /\ pc = "idle"
    /\ \E a \in [instance_path : Paths, instance_id : Ids, model_id : Ids,
                 alias : Aliases, version : Versions] :
       \E f \in FilesFor(a.instance_path), r \in Responses :
           LET o == get_model_instance(a, [file |-> f, resp |-> r])
           IN  Call("get_model_instance", a, FileResp(f, r, o), o)

ListModelInstances ==
    /\ pc = "idle"
    /\ \E a \in [instance_path : Paths, model_id : Ids, alias : Aliases] :
       \E f \in FilesFor(a.instance_path), r \in Responses :
           LET o == list_model_instances(a, [file |-> f, resp |-> r])
           IN  Call("list_model_instances", a, FileResp(f, r, o), o)

GetModelImage ==
    /\ pc = "idle"
    /\ \E a \in [image_id : Ids], r \in Responses :
           LET o == get_model_image(a, [resp |-> r])
           IN  Call("get_model_image", a, FileResp(NoFile, r, o), o)

ListModelImages ==
    /\ pc = "idle"
    /\ \E a \in [model_id : Ids, alias : Aliases], r \in Responses :
           LET o == list_model_images(a, [resp |-> r])
           IN  Call("list_model_images", a, FileResp(NoFile, r, o), o)

RegisterModelArgs ==
    [app_id : Ids, private : PrivateValues, cell_type : OptionValues,
     model_type : OptionValues, brain_region : OptionValues, species : OptionValues,
     organization : OptionValues, instances : {<<>>, <<"v1">>}]
EditModelArgs ==
    [model_id : Ids, app_id : Ids, private : PrivateValues, cell_type : OptionValues,
     model_type : OptionValues, brain_region : OptionValues, species : OptionValues,
     organization : OptionValues]

RegisterModel ==
    /\ pc = "idle"
    /\ \E a \in RegisterModelArgs, v \in OptionResponses, r \in WriteResponses :
           LET o == register_model(a, [opts |-> v, resp |-> r])
           IN  Call("register_model", a, OptsResp(v, r, o), o)

EditModel ==
    /\ pc = "idle"
    /\ \E a \in EditModelArgs, v \in OptionResponses, r \in WriteResponses :
           LET o == edit_model(a, [opts |-> v, resp |-> r])
           IN  Call("edit_model", a, OptsResp(v, r, o), o)

AddModelInstance ==
    /\ pc = "idle"
    /\ \E a \in [model_id : Ids, alias : Aliases, version : Versions], r \in WriteResponses :
           LET o == add_model_instance(a, [resp |-> r])
           IN  Call("add_model_instance", a, FileResp(NoFile, r, o), o)

EditModelInstance ==
    /\ pc = "idle"
    /\ \E a \in [instance_id : Ids, model_id : Ids, alias : Aliases, version : Versions],
          r \in WriteResponses :
           LET o == edit_model_instance(a, [resp |-> r])
           IN  Call("edit_model_instance", a, FileResp(NoFile, r, o), o)

AddModelImage ==
    /\ pc = "idle"
    /\ \E a \in [model_id : Ids, alias : Aliases], r \in WriteResponses :
           LET o == add_model_image(a, [resp |-> r])
           IN  Call("add_model_image", a, FileResp(NoFile, r, o), o)

EditModelImage ==
    /\ pc = "idle"
    /\ \E a \in [image_id : Ids], r \in WriteResponses :
           LET o == edit_model_image(a, [resp |-> r])
           IN  Call("edit_model_image", a, FileResp(NoFile, r, o), o)


\* A first response, or the two responses in the order they are consulted:
\* the instance lookup comes first when instance_id is given.
TestEnv(a, tf, if, r1, r2, l, obs) ==
    IF a.instance_id # ""
    THEN [tfile |-> tf, ifile |-> if, iresp |-> r1, tresp |-> r2, load |-> l, obs |-> obs]
    ELSE [tfile |-> tf, ifile |-> if, tresp |-> r1, iresp |-> r2, load |-> l, obs |-> obs]

GetValidationTest ==
    /\ pc = "idle"
    /\ \E a \in [test_path : Paths, instance_path : Paths, instance_id : Ids,
                 test_id : Ids, alias : Aliases, version : Versions] :
       \E tf \in FilesFor(a.test_path), if \in FilesFor(a.instance_path) :
       LET sent(r1, r2) ==
               Len(get_validation_test(a, TestEnv(a, tf, if, r1, r2, "KeyError", <<>>)).http)
           found(r1, r2) ==
               get_validation_test(a, TestEnv(a, tf, if, r1, r2, "KeyError", <<>>)).err
                   = "KeyError"
       IN
       \E r1 \in (IF sent(NoResp, NoResp) > 0 THEN Responses ELSE {NoResp}) :
       \E r2 \in (IF sent(r1, NoResp) > 1 THEN Responses ELSE {NoResp}) :
       \E l \in (IF found(r1, r2) THEN Loads ELSE {"ok"}) :
       \E obs \in (IF found(r1, r2) /\ l = "ok" THEN Observations ELSE {<<>>}) :
           LET e == TestEnv(a, tf, if, r1, r2, l, obs)
           IN  Call("get_validation_test", a, e, get_validation_test(a, e))

Scores ==
    [model_id : {"missing", "mi9"}, test_id : {"ti9"},
     related : SUBSET {"figures", "project", "passed"}, project : {"c9"}]
Stores ==
    {NoStore} \cup {CollabDataStore(c, z) : c \in {"None", "c9"}, z \in BOOLEAN}

RegisterResult ==
    /\ pc = "idle"
    /\ \E a \in [test_result : Scores, data_store : Stores] :
       LET posts(r) ==
               register_result(a, [resp |-> r, probe |-> "ok", resolve |-> "ok"]).http # <<>>
       IN
       \E r \in (IF posts(NoResp) THEN WriteResponses ELSE {NoResp}) :
       \E p \in (IF posts(NoResp) THEN Probes ELSE {"ok"}) :
       \E h \in (IF posts(NoResp) /\ p = "ok" THEN Resolutions ELSE {"ok"}) :
           LET e == [resp |-> r, probe |-> p, resolve |-> h]
           IN  Call("register_result", a, e, register_result(a, e))

NoRedirect == [status |-> 0, location |-> FALSE, cookie |-> FALSE]
NoFinal    == [status |-> 0, url |-> "other", json |-> FALSE, token |-> "None"]

Construct ==
    /\ pc = "idle"
    /\ \E a \in [password : {"None", "pw"}] :
       \E ep \in {"None", "envpw"} :
       LET E(r1, r2, r3, r4) == [envpass |-> ep, r1 |-> r1, r2 |-> r2, r3 |-> r3, r4 |-> r4]
           sent(r1, r2, r3) == Len(_hbp_auth(E(r1, r2, r3, NoFinal)).http)
       IN
       \E r1 \in Redirects :
       \E r2 \in (IF sent(r1, NoRedirect, [text |-> FALSE]) > 1 THEN Redirects
                  ELSE {NoRedirect}) :
       \E r3 \in (IF sent(r1, r2, [text |-> FALSE]) > 2 THEN Pages ELSE {[text |-> FALSE]}) :
       \E r4 \in (IF sent(r1, r2, r3) > 3 THEN Finals ELSE {NoFinal}) :
           LET o == BaseClient_init(a, E(r1, r2, r3, r4))
           IN  /\ pc' = "done"
               /\ op' = "BaseClient"
               /\ args' = a
               /\ env' = E(r1, r2, r3, r4)
               /\ out' = o
               \* a constructor that raises leaves the caller with what it had
               /\ client' = IF o.err = "none" THEN [token |-> o.val[1].token] ELSE client
               /\ UNCHANGED rt

(***************************************************************************)
(* utils.run_test, one action per stage.  While it runs pc = "run_test",   *)
(* rt.at names the stage to come, rt holds the locals, and out accumulates *)
(* the exchanges (out.http) and, in out.fx, the prints, prompts and the    *)
(* client methods called, in order.  When it has ended (pc = "done") rt.at *)
(* is the stage that raised, or "returned".                                *)
(***************************************************************************)
\* model_metadata: absent, or a dict whose enumerated values are "a"
MetaData == {"", "metadata"}
RunTestArgs ==
    [hbp_username : {"", "user"}, is_model : BOOLEAN,
     model_id : {"missing", "m0"},              \* the model's attribute `id`
     model_instance_id : {"missing", "mi0"},    \* the model's attribute `instance_id`
     test_instance_id : Ids, test_id : Ids, test_alias : Aliases, test_version : Versions,
     storage_collab_id : {"", "c5"}, register_result : BOOLEAN,
     model_metadata : MetaData]

\* the answers the environment may give to a request of run_test
RtLogins    == {LoginOk, LoginOther, LoginRefused}
RtResponses == {[status |-> 200, body |-> [json |-> TRUE, n |-> 1]],
                [status |-> 500, body |-> [json |-> TRUE, n |-> 0]]}
RtWrites    == {[status |-> 201, body |-> [json |-> TRUE, n |-> 0]],
                [status |-> 500, body |-> [json |-> TRUE, n |-> 0]]}
RtOptions   == {[status |-> 200, body |-> [kind |-> "options", allowed |-> S]]
                    : S \in {{"a"}, {"b"}}}

\* out after a client call with outcome o made at this stage
After(name, o) ==
    [http |-> out.http \o o.http, fx |-> out.fx \o <<name>> \o o.fx,
     err |-> o.err, carries |-> o.carries, returned |-> FALSE, val |-> <<>>]

\* the stage ends: with an exception (run_test is over) or goes on to `at`
Stage(o, at, locals) ==
    /\ out' = o
    /\ IF o.err # "none"
       THEN pc' = "done" /\ rt' = rt       \* rt.at: the stage that raised
       ELSE pc' = "run_test" /\ rt' = [locals EXCEPT !.at = at]
    /\ UNCHANGED <<op, args, env, client>>
\* run_test returns
Finish(o) ==
    /\ out' = [o EXCEPT !.returned = TRUE]
    /\ pc' = "done"
    /\ rt' = [rt EXCEPT !.at = "returned"]
    /\ UNCHANGED <<op, args, env, client>>
At(at) == pc = "run_test" /\ rt.at = at

\* lines 126-138 with the username prompt moved ahead of the model check
CheckTheModelLate(a) ==
    LET prompt == IF a.hbp_username = "" THEN <<"raw_input HBP Username">> ELSE <<>>
    IN  IF ~a.is_model
        THEN [Raise(<<>>, "TypeError", "nothing") EXCEPT !.fx = prompt]
        ELSE [NoOutcome EXCEPT !.fx = <<"print Model">> \o prompt]
\* lines 126-138: the model check, the banner, the username prompt
CheckTheModel(a) ==
    LET prompt == IF a.hbp_username = "" THEN <<"raw_input HBP Username">> ELSE <<>>
    IN  IF ~a.is_model
        THEN Raise(<<>>, "TypeError", "nothing")
        ELSE [NoOutcome EXCEPT !.fx = <<"print Model">> \o prompt]

RunTestStart ==
    /\ pc = "idle"
    /\ \E a \in RunTestArgs :
         /\ op' = "run_test"
         /\ args' = a
         /\ env' = <<>>
         /\ UNCHANGED client
         /\ out' = CheckTheModel(a)
         /\ IF CheckTheModel(a).err # "none"
            THEN /\ pc' = "done"
                 /\ rt' = [at |-> "start"]
            ELSE /\ pc' = "run_test"
                 /\ rt' = [at |-> "TestLibrary",
                           id |-> a.model_id, instance_id |-> a.model_instance_id,
                           storage_collab_id |-> a.storage_collab_id,
                           related |-> {}, project |-> "unset",
                           test_id |-> "unset", model_id |-> "unset",
                           collab_id |-> "unset",
                           \* the tokens of test_library and of model_catalog
                           test_library |-> "none", model_catalog |-> "none"]

\* line 140: test_library = TestLibrary(hbp_username)
RunTestLogin ==
    /\ At("TestLibrary")
    /\ \E e \in RtLogins :
         LET o == BaseClient_init([password |-> "None"], e)
         IN  Stage(After("TestLibrary", o), "get_validation_test",
                   IF o.err = "none" THEN [rt EXCEPT !.test_library = o.val[1].token]
                   ELSE rt)

\* lines 142-150
RunTestGetTest ==
    /\ At("get_validation_test")
    /\ IF args.test_instance_id = ""
          /\ (args.test_id = "" \/ args.test_version = "")
          /\ (args.test_alias = "" \/ args.test_version = "")
       THEN Stage(After("raise", Raise(<<>>, "MissingIdentifier", "nothing")), "raised", rt)
       ELSE \E r1 \in RtResponses, r2 \in RtResponses, obs \in {<<"5">>, <<"abc">>} :
            LET a == [test_path |-> "", instance_path |-> "",
                      instance_id |-> args.test_instance_id, test_id |-> args.test_id,
                      alias |-> args.test_alias, version |-> args.test_version]
                o == By(rt.test_library,
                        get_validation_test(a, TestEnv(a, NoFile, NoFile, r1, r2, "ok", obs)))
            IN  /\ (Len(o.http) < 2 => r2.status = 200)
                /\ (o.http[Len(o.http)].status # 200 => obs = <<"5">>)
                /\ Stage([After("get_validation_test", o) EXCEPT
                              !.fx = IF o.err = "none" THEN @ \o <<"print Test">> ELSE @],
                         "judge",
                         IF o.err = "none" THEN [rt EXCEPT !.test_id = o.val[1].id] ELSE rt)

\* lines 153-160: score = test.judge(model, deep_error=True)
RunTestJudge ==
    /\ At("judge")
    /\ \E judged \in {"ok", "raises"}, related \in SUBSET {"figures"} :
         /\ judged = "raises" => related = {}
         /\ IF judged = "raises"
            THEN Stage(After("judge", Raise(<<>>, "JudgeError", "nothing")), "raised", rt)
            ELSE LET o == [After("judge", NoOutcome) EXCEPT !.fx = @ \o <<"print Score">>]
                 IN  IF args.register_result
                     THEN Stage(o, "ModelCatalog", [rt EXCEPT !.related = related])
                     ELSE Finish(o)

\* lines 164-167: model_catalog = ModelCatalog(hbp_username) and the decision
RunTestCatalog ==
    /\ At("ModelCatalog")
    /\ \E e \in RtLogins :
         LET c == BaseClient_init([password |-> "None"], e)
             o == After("ModelCatalog", c)
             locals == IF c.err = "none" THEN [rt EXCEPT !.model_catalog = c.val[1].token]
                       ELSE rt
         IN  IF rt.id = "missing" /\ args.model_metadata = ""
             THEN Stage(IF o.err = "none"
                        THEN [o EXCEPT !.fx = Append(@, "print Results NOT saved")]
                        ELSE o,
                        "get_model_instance", locals)
             ELSE IF rt.id = "missing"
             THEN Stage(o, "register_model", locals)
             ELSE Stage(o, "get_model_instance", locals)

\* lines 169-180: model_catalog.register_model(...) from model_metadata
RunTestRegisterModel ==
    /\ At("register_model")
    /\ \E v \in RtOptions, r \in RtWrites :
         LET a == [app_id |-> "id1", private |-> "False", cell_type |-> "a",
                   model_type |-> "a", brain_region |-> "a", species |-> "a",
                   organization |-> "a", instances |-> <<"v1">>]
             o == By(rt.model_catalog, register_model(a, [opts |-> v, resp |-> r]))
         IN  /\ (Len(o.http) < 2 => r.status = 201)
             /\ Stage(After("register_model", o), "get_new_instance",
                      [rt EXCEPT !.model_id = "uuid"])

\* lines 181-182: the new model's first declared instance
RunTestNewInstance ==
    /\ At("get_new_instance")
    /\ \E r \in RtResponses :
         LET a == [instance_path |-> "", instance_id |-> "", model_id |-> rt.model_id,
                   alias |-> "", version |-> "v1"]
             o == By(rt.model_catalog, get_model_instance(a, [file |-> NoFile, resp |-> r]))
         IN  Stage(After("get_model_instance", o), "get_model_instance",
                   IF o.err = "none"
                   THEN [rt EXCEPT !.instance_id = Field(o.val[1], "id")]
                   ELSE rt)

\* line 184: get_model_instance(instance_id=score.model.instance_id)
RunTestModelInstance ==
    /\ At("get_model_instance")
    /\ IF rt.instance_id = "missing"
       THEN Stage(After("raise", Raise(<<>>, "AttributeError", "nothing")), "raised", rt)
       ELSE \E r \in RtResponses :
            LET a == [instance_path |-> "", instance_id |-> rt.instance_id,
                      model_id |-> "", alias |-> "", version |-> ""]
                o == By(rt.model_catalog,
                        get_model_instance(a, [file |-> NoFile, resp |-> r]))
            IN  Stage(After("get_model_instance", o), "get_model",
                      IF o.err = "none"
                      THEN [rt EXCEPT !.model_id = Field(o.val[1], "model_id")]
                      ELSE rt)

\* lines 185-191: the model's host collab, the default storage collab
RunTestGetModel ==
    /\ At("get_model")
    /\ \E r \in RtResponses :
         LET a == [model_id |-> rt.model_id, alias |-> "", instances |-> TRUE,
                   images |-> TRUE]
             o == By(rt.model_catalog, get_model(a, [resp |-> r]))
             host == ServerFields.model.collab_id
         IN  Stage(After("get_model", o), "register_result",
                   IF rt.storage_collab_id = ""
                   THEN [rt EXCEPT !.collab_id = host, !.storage_collab_id = host,
                                   !.related = @ \cup {"project"}, !.project = host]
                   ELSE [rt EXCEPT !.collab_id = host])

\* lines 197-202: the data store and test_library.register_result
RunTestRegisterResult ==
    /\ At("register_result")
    /\ \E authorized \in BOOLEAN, r \in RtWrites :
         LET a == [test_result |-> [model_id |-> rt.id, test_id |-> rt.test_id,
                                    related |-> rt.related, project |-> rt.project],
                   data_store |-> CollabDataStore(rt.storage_collab_id, authorized)]
             o == By(rt.test_library,
                     register_result(a, [resp |-> r, probe |-> "ok", resolve |-> "ok"]))
         IN  /\ (o.http = <<>> => r.status = 201)
             /\ IF o.err # "none"
                THEN Stage(After("register_result", o), "raised", rt)
                ELSE Finish(After("register_result", o))

\* The caller has seen the outcome and is ready for its next call.
NextCall ==
    /\ pc = "done"
    /\ pc' = "idle"
    /\ op' = "none"
    /\ args' = <<>>
    /\ env' = <<>>
    /\ out' = NoOutcome
    /\ rt' = <<>>
    /\ UNCHANGED client

Init ==
    /\ pc = "idle"
    /\ op = "none"
    /\ args = <<>>
    /\ env = <<>>
    /\ out = NoOutcome
    /\ rt = <<>>
    /\ client = [token |-> "none"]

Next ==
    \/ GetTestDefinition \/ GetValidationTest \/ ListTests
    \/ GetTestInstance \/ ListTestInstances
    \/ TestLibraryGetOptions \/ GetResult \/ ListResults \/ RegisterResult
    \/ AddTest \/ EditTest \/ AddTestInstance \/ EditTestInstance
    \/ GetModel \/ ListModels \/ RegisterModel \/ EditModel \/ ModelCatalogGetOptions
    \/ GetModelInstance \/ ListModelInstances \/ AddModelInstance \/ EditModelInstance
    \/ GetModelImage \/ ListModelImages \/ AddModelImage \/ EditModelImage
    \/ Construct
    \/ RunTestStart \/ RunTestLogin \/ RunTestGetTest \/ RunTestJudge \/ RunTestCatalog
    \/ RunTestRegisterModel \/ RunTestNewInstance \/ RunTestModelInstance
    \/ RunTestGetModel \/ RunTestRegisterResult
    \/ NextCall

Spec == Init /\ [][Next]_vars


(***************************************************************************)
(* Vocabulary of the properties.                                           *)
(***************************************************************************)
Done(name) == pc = "done" /\ op = name
DoneOneOf(names) == pc = "done" /\ op \in names
Idx == 1..Len(out.http)
SentWrite == \E i \in Idx : out.http[i].method \in {"POST", "PUT"}
OptionsKnown == env.opts.body.kind = "options"
\* the fields an operation validates against the option set
Validated(name) ==
    IF name \in {"add_test", "edit_test"}
    THEN {"species", "brain_region", "cell_type", "data_modality", "test_type", "score_type"}
    ELSE IF name = "register_model"
    THEN {"cell_type", "model_type", "brain_region", "species", "organization"}
    ELSE {"cell_type", "model_type", "brain_region", "species"}
InvalidField == \E f \in Validated(op) : args[f] \notin env.opts.body.allowed
OnlyOptionsFetched ==
    /\ Len(out.http) = 1
    /\ out.http[1].method = "GET"
    /\ out.http[1].path = OptionsPath

C2_NoWriteOnInvalidField ==
    (DoneOneOf({"add_test", "edit_test", "register_model", "edit_model"})
        /\ OptionsKnown /\ InvalidField)
        => ~SentWrite /\ ~out.returned

C2_Witness ==
    /\ Done("edit_model")
    /\ OptionsKnown
    /\ args.species \notin env.opts.body.allowed
    /\ args.model_id # ""
    /\ OnlyOptionsFetched
    /\ out.err = "InvalidInput"

\* C3: get_validation_test with an existing local test-definition file and
\* an existing local test-instance file issues no network call and returns
\* a test object whose id is the id field of the instance file.
C3_LocalFilesResolveOffline ==
    (Done("get_validation_test") /\ args.test_path # "" /\ args.instance_path # ""
        /\ env.tfile.isfile /\ env.ifile.isfile)
        => /\ out.http = <<>>
           /\ out.returned
           /\ out.val[1].id = FileFields.test_instance.id

\* C4: a "get" operation given an existing local file and a remote
\* identifier returns the value of the local file and sends no request.
C4_LocalPathWins ==
    (DoneOneOf({"get_test_definition", "get_test_instance", "get_model_instance",
                "list_test_instances", "list_model_instances"})
        /\ (IF op = "get_test_definition" THEN args.test_path ELSE args.instance_path) # ""
        /\ env.file.isfile
        /\ \/ args.alias # ""
           \/ (IF op \in {"get_test_definition", "get_test_instance", "list_test_instances"}
               THEN args.test_id ELSE args.model_id) # "")
        => /\ out.http = <<>>
           /\ out.returned
           /\ \A i \in 1..Len(out.val) : out.val[i].src = "file"

\* what it means for each retrieval to be called with none of its identifiers
NoIdentifier ==
    IF op = "get_model" \/ op = "list_model_images"
    THEN args.model_id = "" /\ args.alias = ""
    ELSE IF op = "get_test_definition"
    THEN args.test_path = "" /\ args.test_id = "" /\ args.alias = ""
    ELSE IF op = "list_test_instances"
    THEN args.instance_path = "" /\ args.test_id = "" /\ args.alias = ""
    ELSE IF op = "list_model_instances"
    THEN args.instance_path = "" /\ args.model_id = "" /\ args.alias = ""
    ELSE IF op = "get_test_instance"
    THEN /\ args.instance_path = "" /\ args.instance_id = ""
         /\ ~(args.version # "" /\ (args.test_id # "" \/ args.alias # ""))
    ELSE IF op = "get_model_instance"
    THEN /\ args.instance_path = "" /\ args.instance_id = ""
         /\ ~(args.version # "" /\ (args.model_id # "" \/ args.alias # ""))
    ELSE IF op = "get_model_image" THEN args.image_id = ""
    ELSE args.result_id = ""

Retrievals ==
    {"get_model", "get_test_definition", "get_test_instance", "list_test_instances",
     "get_model_instance", "list_model_instances", "get_model_image",
     "list_model_images", "get_result"}

NoResolvingIdentifier ==
    IF op = "edit_test" THEN args.test_id = ""
    ELSE IF op = "register_model" THEN args.app_id = ""
    ELSE IF op = "edit_model" THEN args.model_id = ""
    ELSE IF op = "add_test_instance" THEN args.test_id = ""
    ELSE IF op \in {"add_model_instance", "add_model_image"} THEN args.model_id = ""
    ELSE IF op = "edit_test_instance"
    THEN args.instance_id = "" /\ ~(args.version # "" /\ (args.test_id # "" \/ args.alias # ""))
    ELSE IF op = "edit_model_instance"
    THEN args.instance_id = "" /\ ~(args.version # "" /\ (args.model_id # "" \/ args.alias # ""))
    ELSE args.image_id = ""

\* C6: every add and edit operation called without its resolving identifier
\* raises a missing-identifier error before any network call is made.
C6_AddEditRequireIdentifier ==
    (DoneOneOf({"add_test_instance", "edit_test", "edit_test_instance", "register_model",
                "edit_model", "add_model_instance", "edit_model_instance",
                "add_model_image", "edit_model_image"}) /\ NoResolvingIdentifier)
        => (out.err \in {"MissingIdentifier", "UnsupportedFeature"} /\ out.http = <<>>)

\* C7: in every "get" and "list" operation a response with status 404 or 500
\* makes the operation raise RemoteRequestFailure with the response content
\* in its message, and no value is returned.
C7_ErrorStatusRaises ==
    (DoneOneOf({"get_test_definition", "get_test_instance", "list_test_instances",
                "list_tests", "get_result", "list_results", "TestLibrary.get_options",
                "get_model", "list_models", "get_model_instance", "list_model_instances",
                "get_model_image", "list_model_images", "ModelCatalog.get_options"})
        /\ \E i \in Idx : out.http[i].status \in {404, 500})
        => (out.err = "RemoteRequestFailure" /\ out.carries = "content" /\ ~out.returned)

\* C8: every create operation raises an error carrying the response body
\* when the service answers its POST with a status other than 201, every
\* edit operation when its PUT is answered with a status other than 202;
\* none reports success on another status.
C8_WriteStatusChecked ==
    (DoneOneOf({"add_test", "add_test_instance", "register_model", "add_model_instance",
                "add_model_image", "register_result", "edit_test", "edit_test_instance",
                "edit_model", "edit_model_instance", "edit_model_image"})
        /\ \E i \in Idx : \/ out.http[i].method = "POST" /\ out.http[i].status # 201
                          \/ out.http[i].method = "PUT" /\ out.http[i].status # 202)
        => (~out.returned /\ out.err # "none" /\ out.carries = "content")


\* run_test has ended and had come as far as deciding about the model,
\* i.e. the test was loaded and judged and the catalog client constructed
Said(x) == \E i \in 1..Len(out.fx) : out.fx[i] = x
Decided ==
    /\ Done("run_test")
    /\ rt.at \notin {"start", "TestLibrary", "get_validation_test", "judge", "ModelCatalog"}
ResultsPath == "/validationmodelresultrest2/"

\* C9: run_test with register_result requested, a model without catalog
\* instance id and no model_metadata completes normally, prints that the
\* results were not saved, and issues no result-registration request: no
\* POST to the results endpoint and no data-store upload.
C9_UnregisteredModelSkipsRegistration ==
    (Decided /\ args.register_result /\ args.model_metadata = ""
        /\ args.model_id = "missing" /\ args.model_instance_id = "missing")
        => /\ out.returned /\ out.err = "none"
           /\ Said("print Results NOT saved")
           /\ ~Said("upload_data")
           /\ \A i \in Idx : ~(out.http[i].method = "POST" /\ out.http[i].path = ResultsPath)

\* C10: run_test calls ModelCatalog.register_model if and only if result
\* registration is requested, the model carries no catalog instance id
\* (model.instance_id) and model_metadata was supplied; a model that carries
\* its instance id is never registered again, model_metadata or not.
C10_RegisterModelOnlyWithoutInstanceId ==
    Decided =>
        /\ Said("register_model") <=>
               (args.register_result /\ args.model_instance_id = "missing"
                   /\ args.model_metadata # "")
        /\ args.model_instance_id # "missing" => ~Said("register_model")

\* the result POSTs run_test has issued
ResultPosts ==
    {i \in Idx : out.http[i].method = "POST" /\ out.http[i].path = ResultsPath}
\* every request to the validation service was answered with success
Served ==
    \A i \in Idx : out.http[i].auth.scheme # "none" =>
        /\ out.http[i].method = "GET" => out.http[i].status = 200
        /\ out.http[i].method = "POST" => out.http[i].status = 201

\* C11: a run_test invocation in which result registration is requested and
\* a model instance id is available (carried by the model or obtained by
\* auto-registration) issues exactly one result POST; no run_test invocation
\* issues more than one.
C11_ResultRegisteredExactlyOnce ==
    Done("run_test") =>
        /\ Cardinality(ResultPosts) <= 1
        /\ (Decided /\ args.register_result /\ rt.instance_id # "missing" /\ Served)
               => Cardinality(ResultPosts) = 1

\* C12: run_test called with a model argument that is not a sciunit Model
\* aborts with a type error before anything else happens: no username
\* prompt, no login, no service request and no test execution.
C12_TypeErrorFirst ==
    (Done("run_test") /\ ~args.is_model) =>
        /\ out.err = "TypeError" /\ ~out.returned
        /\ rt.at = "start"
        /\ out.http = <<>>
        /\ out.fx = <<>>
\* a non-model passed without a username, where a prompt would have come next
C12_Witness ==
    /\ Done("run_test") /\ ~args.is_model /\ args.hbp_username = ""
    /\ args.register_result
    /\ out.err = "TypeError"

\* C13: construction of a client ends with a stored bearer token only if
\* the credential POST returned 200 and its final url is <base
\* url>/config.json, and then the token is auth.token.access_token of that
\* response body; in every other outcome construction raises and yields no
\* client.
C13_TokenOnlyOnSuccessfulLogin ==
    Done("BaseClient") =>
        /\ out.returned =>
              /\ Len(out.http) = 4 /\ out.http[4].method = "POST"
              /\ env.r4.status = 200 /\ env.r4.url = "config.json"
              /\ env.r4.token # "None"
              /\ out.val = << [token |-> env.r4.token] >>
              /\ client.token = env.r4.token
        /\ ~out.returned => (out.err # "none" /\ out.val = <<>>)
        /\ (env.r4.status # 200 \/ env.r4.url # "config.json") => ~out.returned
\* a login that succeeded and stored the token of the response body
C13_Witness ==
    /\ Done("BaseClient") /\ out.returned
    /\ env.r4.token = "t2" /\ client.token = "t2"

\* the password a construction sent in its credential POST, if it sent one
SentPasswords ==
    {out.http[i].data.j_password : i \in {k \in Idx : out.http[k].method = "POST"}}

\* C14: at client construction the password is the explicit argument, else
\* the HBP_PASS environment variable, else the answer to a hidden prompt:
\* the environment variable is consulted only when no password argument is
\* supplied, and the prompt occurs only when the argument is absent and the
\* environment variable is unset.
C14_PasswordResolutionOrder ==
    Done("BaseClient") =>
        /\ Said("environ HBP_PASS") <=> args.password = "None"
        /\ Said("getpass") <=> (args.password = "None" /\ env.envpass = "None")
        /\ out.fx \in {<<>>, <<"environ HBP_PASS">>, <<"environ HBP_PASS", "getpass">>}
        /\ SentPasswords \subseteq
               {IF args.password # "None" THEN args.password
                ELSE IF env.envpass # "None" THEN env.envpass
                ELSE "typed"}
\* a password argument given while HBP_PASS is set: the argument is sent
C14_Witness ==
    /\ Done("BaseClient") /\ args.password = "pw" /\ env.envpass = "envpw"
    /\ SentPasswords = {"pw"}

\* the operations of TestLibrary and ModelCatalog
ClientOperations ==
    {"get_test_definition", "get_validation_test", "list_tests", "add_test", "edit_test",
     "get_test_instance", "list_test_instances", "add_test_instance", "edit_test_instance",
     "TestLibrary.get_options", "get_result", "list_results", "register_result",
     "get_model", "list_models", "register_model", "edit_model", "ModelCatalog.get_options",
     "get_model_instance", "list_model_instances", "add_model_instance",
     "edit_model_instance", "get_model_image", "list_model_images", "add_model_image",
     "edit_model_image"}
\* the endpoints run_test reaches through test_library (the others: model_catalog)
LibraryPaths == {"/validationtestdef/", "/validationtestscode/", ResultsPath}
ServiceRequests == {i \in Idx : out.http[i].path \notin
                       {"/login/hbp/", "authorize", "login page", "None",
                        "/oidc/j_spring_security_check"}}
AllBearer ==
    /\ DoneOneOf(ClientOperations) =>
           \A i \in Idx : out.http[i].auth = HBPAuth(client.token)
    /\ (op = "run_test" /\ pc \in {"run_test", "done"}) =>
           \A i \in ServiceRequests :
               out.http[i].auth =
                   HBPAuth(IF out.http[i].path \in LibraryPaths
                           THEN rt.test_library ELSE rt.model_catalog)
TokenKept ==
    client.token # "none" =>
        \/ client' = client
        \/ pc' = "done" /\ op' = "BaseClient" /\ out'.returned   \* a new client object

\* C15: every request a TestLibrary or ModelCatalog operation sends to the
\* validation service carries Authorization: Bearer <token>, the token
\* obtained at that client's login; the token of a client object is never
\* changed or replaced.
C15_BearerTokenOnEveryRequest == [](AllBearer) /\ [][TokenKept]_vars
\* run_test has sent requests through two clients that hold different tokens
C15_Witness ==
    /\ Done("run_test") /\ rt.at = "returned"
    /\ rt.test_library = "t1" /\ rt.model_catalog = "t2"
    /\ Cardinality(ResultPosts) = 1
    /\ \E i \in ServiceRequests : out.http[i].auth = HBPAuth("t2")

AliasAdds == {"add_test_instance", "add_model_instance", "add_model_image"}
\* the id argument of such a call, and the id its POST carries
AddId == IF op = "add_test_instance" THEN args.test_id ELSE args.model_id
PostedId(x) == IF op = "add_test_instance" THEN x.data[1].test_definition_id
               ELSE x.data[1].model_id

\* C16: add_test_instance, add_model_instance and add_model_image called
\* with an alias but no id raise the unsupported-feature error without
\* sending any request; called with both an id and an alias they select by
\* the id and send the POST.
C16_AliasAddUnsupported ==
    DoneOneOf(AliasAdds) =>
        /\ (AddId = "" /\ args.alias # "") =>
               /\ out.err = "UnsupportedFeature" /\ ~out.returned
               /\ out.http = <<>>
        /\ (AddId # "" /\ args.alias # "") =>
               /\ Len(out.http) = 1
               /\ out.http[1].method = "POST"
               /\ out.http[1].query = Query(<<>>)
               /\ PostedId(out.http[1]) = AddId
               /\ out.err # "UnsupportedFeature"
\* an add by alias alone that was refused
C16_Witness ==
    /\ Done("add_model_image") /\ args.model_id = "" /\ args.alias # ""
    /\ out.err = "UnsupportedFeature"

PathOperations == {"get_test_definition", "get_test_instance", "list_test_instances",
                   "get_model_instance", "list_model_instances"}
PathArg == IF op = "get_test_definition" THEN args.test_path ELSE args.instance_path

Selector(x) == {x.query[i] : i \in DOMAIN x.query} \ {<<"format", "json">>}
IdAliasLookups == {"get_test_definition", "get_model", "list_test_instances",
                   "list_model_instances", "list_model_images"}
InstanceLookups == {"get_test_instance", "edit_test_instance",
                    "get_model_instance", "edit_model_instance"}
\* the id argument of the operation called
IdArg == IF op \in {"get_test_definition", "list_test_instances",
                    "get_test_instance", "edit_test_instance"}
         THEN args.test_id ELSE args.model_id
IdKeys == {"id", "test_definition_id", "model_id"}
AliasKeys == {"alias", "test_alias", "model_alias"}

\* C18: a lookup given both an id and an alias selects by the id only and
\* ignores the alias; an instance lookup selects by the instance id if
\* present, else by (id, version) if both are present, else by (alias,
\* version).
C18_IdBeforeAlias ==
    /\ (DoneOneOf(IdAliasLookups) /\ IdArg # "" /\ args.alias # "") =>
           \A i \in Idx :
               \E k \in IdKeys : Selector(out.http[i]) = {<<k, IdArg>>}
    /\ DoneOneOf(InstanceLookups) =>
           \A i \in Idx :
               IF args.instance_id # ""
               THEN Selector(out.http[i]) = {<<"id", args.instance_id>>}
               ELSE IF IdArg # "" /\ args.version # ""
               THEN \E k \in IdKeys \ {"id"} :
                        Selector(out.http[i]) = {<<k, IdArg>>, <<"version", args.version>>}
               ELSE \E k \in AliasKeys :
                        Selector(out.http[i]) = {<<k, args.alias>>, <<"version", args.version>>}
\* a model looked up with both an id and an alias, and the request sent
C18_Witness ==
    /\ Done("get_model") /\ args.model_id # "" /\ args.alias # ""
    /\ Len(out.http) = 1 /\ out.returned

\* the platform record a register_result call has put in its POST
PostedPlatform == out.http[1].data[1].platform

\* C19: _get_platform reports ip_addr 127.0.0.1 whenever the connectivity
\* probe fails or times out, in which case no hostname resolution is
\* attempted, or the resolution fails, and the resolved address otherwise;
\* _have_internet_connection is false exactly when the probe raises a URL
\* error or a timeout.
C19_PlatformFallsBackToLoopback ==
    (Done("register_result") /\ out.http # <<>>) =>
        /\ _have_internet_connection(env.probe) = (env.probe \notin {"URLError", "timeout"})
        /\ PostedPlatform.resolved = (env.probe = "ok")
        /\ PostedPlatform.ip_addr =
               IF env.probe \in {"URLError", "timeout"} \/ env.resolve = "gaierror"
               THEN "127.0.0.1" ELSE "resolved"
\* a result registered from a machine whose probe timed out
C19_Witness ==
    /\ Done("register_result") /\ out.http # <<>>
    /\ env.probe = "timeout"
    /\ PostedPlatform.ip_addr = "127.0.0.1" /\ ~PostedPlatform.resolved

\* the observations handed to the test a get_validation_test call built
Built == out.val[1].observations

\* C20: in get_validation_test, if the first value of the observation
\* mapping is a structured record the whole mapping is passed to the test
\* unchanged; otherwise every value is coerced on its own by trying integer
\* parse, then float parse, then "<number> <unit>" quantity, so a value that
\* parses as an integer never becomes a float or a quantity and a value that
\* parses as a float never becomes a quantity; the result has the keys of
\* the input.
C20_ObservationCoercion ==
    (Done("get_validation_test") /\ out.returned) =>
        /\ DOMAIN Built = DOMAIN env.obs
        /\ \A i \in DOMAIN Built : Built[i].of = env.obs[i]
        /\ env.obs[1] = "dict" => \A i \in DOMAIN Built : Built[i].type = "asis"
        /\ env.obs[1] # "dict" =>
              \A i \in DOMAIN Built :
                  /\ IntParses(env.obs[i]) => Built[i].type = "int"
                  /\ (~IntParses(env.obs[i]) /\ FloatParses(env.obs[i]))
                         => Built[i].type = "float"
                  /\ (~IntParses(env.obs[i]) /\ ~FloatParses(env.obs[i]))
                         => Built[i].type = "Quantity"
\* a test built from an integer string and a quantity string
C20_Witness ==
    /\ Done("get_validation_test") /\ out.returned
    /\ env.obs = <<"5", "-65 mV">>
    /\ Built[1].type = "int" /\ Built[2].type = "Quantity"

\* the methods of the requests a call has sent, in order
Methods == [i \in Idx |-> out.http[i].method]
IsPrefix(p, q) == Len(p) <= Len(q) /\ \A i \in 1..Len(p) : p[i] = q[i]

\* C21: within one login attempt the initiation GET, the identity-provider
\* GET, the login-page GET and the credential POST are issued in that order
\* and each at most once; after a failed step (status other than 302/200 at
\* step 2, other than 302 at step 4, empty body at step 6) no later request
\* is sent, so the password is POSTed only when steps 1 to 6 all succeeded.
C21_LoginStepsInOrder ==
    Done("BaseClient") =>
        /\ IsPrefix(Methods, <<"GET", "GET", "GET", "POST">>)
        /\ Len(out.http) >= 1 /\ out.http[1].path = "/login/hbp/"
        /\ env.r1.status \notin {302, 200} => Len(out.http) = 1
        /\ (Len(out.http) >= 2 /\ env.r2.status # 302) => Len(out.http) = 2
        /\ (Len(out.http) >= 3 /\ ~env.r3.text) => Len(out.http) = 3
        /\ Len(out.http) = 4 =>
              /\ out.http[4].path = "/oidc/j_spring_security_check"
              /\ env.r1.status \in {302, 200} /\ env.r2.status = 302 /\ env.r3.text
        /\ (Len(out.http) < 4) => (~out.returned /\ out.err # "none")
\* a login that stopped at the identity provider's answer
C21_Witness ==
    /\ Done("BaseClient") /\ Len(out.http) = 2
    /\ env.r2.status = 200 /\ out.err = "AuthenticationFailure"

\* the response the login has come to lacks a field the protocol reads,
\* while its status is the expected one
LoginFieldMissing ==
    \/ /\ env.r1.status \in {302, 200}
       /\ ~env.r1.cookie \/ (env.r1.status = 302 /\ ~env.r1.location)
    \/ /\ Len(out.http) >= 2 /\ env.r2.status = 302
       /\ ~env.r2.cookie \/ ~env.r2.location
    \/ /\ Len(out.http) = 4 /\ env.r4.status = 200 /\ env.r4.url = "config.json"
       /\ env.r4.json /\ env.r4.token = "None"

\* C22: a missing field during login (no Set-Cookie header at step 1 or
\* step 4, no Location header on a 302, no auth.token.access_token in the
\* final body) makes the login abort with the authentication error, not with
\* an unrelated internal fault, and leaves the client without a token.
C22_MissingFieldIsAuthenticationError ==
    (Done("BaseClient") /\ LoginFieldMissing) =>
        /\ out.err = "AuthenticationFailure"
        /\ ~out.returned /\ out.val = <<>>

\* C23 as stated: the cookie captured from the login-initiation response is
\* attached to every subsequent request of the session, the identity-provider
\* GET, the login-page GET and the credential POST, also after the second
\* cookie is captured (the two are merged, the first is not discarded).
C23_FirstCookieOnEveryRequest ==
    Done("BaseClient") =>
        \A i \in Idx : i >= 2 => "cookie1" \in out.http[i].cookie

\* C23, amended: the cookie captured from the login-initiation response is
\* attached to the identity-provider GET only; the cookie captured from the
\* identity provider's response replaces it in the session's cookie header,
\* so the login-page GET and the credential POST carry the second cookie and
\* not the first.
C23_LatestCookieOnly ==
    Done("BaseClient") =>
        /\ out.http[1].cookie = {}
        /\ Len(out.http) >= 2 => out.http[2].cookie = {"cookie1"}
        /\ \A i \in Idx : i >= 3 => out.http[i].cookie = {"cookie2"}
\* a login that got as far as posting the credentials
C23_Witness ==
    /\ Done("BaseClient") /\ Len(out.http) = 4
    /\ out.http[2].cookie = {"cookie1"} /\ out.http[4].cookie = {"cookie2"}

\* positions of an effect in the log of the call
At_fx(x) == {i \in 1..Len(out.fx) : out.fx[i] = x}

\* C24: in register_result with a storage backend supplied, upload_data is
\* never invoked on a backend whose authorized flag is false: a backend not
\* yet authorized is authorized before upload_data, and authorize is not
\* called on a backend already authorized; with no backend neither is called
\* and the storage locator of the result record is the empty string.
C24_AuthorizeBeforeUpload ==
    Done("register_result") =>
        LET ds == args.data_store IN
        /\ Said("authorize") <=> (ds.given /\ ~ds.authorized)
        /\ Said("upload_data") => ds.given
        /\ (Said("upload_data") /\ ~ds.authorized) =>
               \E i \in At_fx("authorize") : \A j \in At_fx("upload_data") : i < j
        /\ Cardinality(At_fx("authorize")) <= 1 /\ Cardinality(At_fx("upload_data")) <= 1
        /\ (~ds.given /\ out.http # <<>>) => out.http[1].data[1].results_storage = ""
        /\ (ds.given /\ out.http # <<>>) =>
               (Said("upload_data") /\ out.http[1].data[1].results_storage = "locator")
\* figures uploaded to a store that had to be authorized first
C24_Witness ==
    /\ Done("register_result")
    /\ args.data_store.given /\ ~args.data_store.authorized
    /\ out.http # <<>>
    /\ Len(out.fx) >= 2
    /\ out.fx[1] = "authorize" /\ out.fx[2] = "upload_data"

ValidatingCalls == {"add_test", "edit_test", "register_model", "edit_model"}
OptionGets == {i \in Idx : out.http[i].path = OptionsPath}
PrivateFine == op \in {"add_test", "edit_test"} \/ PrivateOk(args.private)

\* C25: every call of add_test, edit_test, register_model and edit_model
\* fetches the option set anew, with exactly one options GET, and validates
\* against exactly that response whatever earlier calls were answered: a
\* value is accepted when this call's option set contains it and rejected
\* when it does not.
C25_OptionsFetchedPerCall ==
    DoneOneOf(ValidatingCalls) =>
        /\ OptionGets = {1}
        /\ out.http[1].method = "GET"
        /\ out.http[1].status = env.opts.status /\ out.http[1].body = env.opts.body
        /\ OptionsKnown => (SentWrite <=> (~InvalidField /\ PrivateFine))
        /\ (OptionsKnown /\ InvalidField) => out.err \in {"InvalidInput", "KeyError"}
\* a value the server's current option set no longer contains is rejected
C25_Witness ==
    /\ Done("register_model") /\ OptionsKnown
    /\ env.opts.body.allowed = {"a"} /\ args.species = "b"
    /\ out.err = "InvalidInput" /\ ~SentWrite

\* C26: the result record run_test registers carries as model_version_id
\* the catalog instance id run_test resolved for the model: the instance id
\* the model had, or the id of the newly registered model's first instance
\* that run_test attached to the model.
C26_ResultCarriesInstanceId ==
    Done("run_test") =>
        \A i \in ResultPosts : out.http[i].data[1].model_version_id = rt.instance_id

\* run_test has called register_result for a score that has figures and a
\* model that has an id
ReachedRegistration ==
    /\ Done("run_test") /\ Said("register_result")
    /\ "figures" \in rt.related /\ rt.id # "missing"
\* the collaboration the artifacts are to be stored in
StorageTarget ==
    IF args.storage_collab_id # "" THEN args.storage_collab_id ELSE rt.collab_id

\* C27: in run_test the artifact-storage target collaboration is
\* storage_collab_id when the caller supplies it and the model's hosting
\* collaboration otherwise, and in both cases the project id of the
\* registered result record is defined and equals that target, so result
\* registration is reached with a project value on every path.
C27_ProjectIsStorageTarget ==
    ReachedRegistration =>
        /\ rt.storage_collab_id = StorageTarget
        /\ out.err # "KeyError"
        /\ \A i \in ResultPosts : out.http[i].data[1].project = StorageTarget
        /\ ResultPosts # {}

\* the instance lookup of the call found an instance
InstanceFound == env.iresp.status = 200 /\ env.iresp.body.json /\ env.iresp.body.n > 0

\* C28: get_validation_test called with an instance_id and no local files
\* looks the instance up first and then fetches the test definition named
\* by the fetched instance's test_definition_id, whatever test_id, alias or
\* version the caller also supplied.
C28_InstanceIdResolvesDefinition ==
    (Done("get_validation_test") /\ args.instance_id # ""
        /\ args.test_path = "" /\ args.instance_path = "") =>
        /\ Len(out.http) \in {1, 2}
        /\ out.http[1].path = "/validationtestscode/"
        /\ Selector(out.http[1]) = {<<"id", args.instance_id>>}
        /\ InstanceFound <=> Len(out.http) = 2
        /\ Len(out.http) = 2 =>
              /\ out.http[2].path = "/validationtestdef/"
              /\ Selector(out.http[2]) =
                     {<<"id", ServerFields.test_instance.test_definition_id>>}
\* a test built from an instance id although a test_id and an alias were given
C28_Witness ==
    /\ Done("get_validation_test") /\ out.returned
    /\ args.instance_id # "" /\ args.test_id # "" /\ args.alias # ""
    /\ args.test_path = "" /\ args.instance_path = ""
    /\ Len(out.http) = 2

\* C29: edit_model called with a model_id, every enumerated field valid and
\* `private` left at its declared default is not rejected by the
\* private-flag check and sends the PUT; likewise register_model accepts
\* the `private` value its documentation shows.
C29_PrivateDefaultAccepted ==
    (DoneOneOf({"edit_model", "register_model"}) /\ OptionsKnown /\ ~InvalidField
        /\ args.private = PrivateDefault
        /\ (op = "edit_model" => args.model_id # ""))
        => /\ out.err # "InvalidInput"
           /\ SentWrite

\* the request the matching "get" sends for the (alias, version) of this call
GetByAlias ==
    IF op = "edit_model_instance"
    THEN get_model_instance([instance_path |-> "", instance_id |-> "", model_id |-> "",
                             alias |-> args.alias, version |-> args.version],
                            [file |-> NoFile, resp |-> NoResp]).http[1]
    ELSE get_test_instance([instance_path |-> "", instance_id |-> "", test_id |-> "",
                            alias |-> args.alias, version |-> args.version],
                           [file |-> NoFile, resp |-> NoResp]).http[1]

\* C30: for the same (alias, version) pair edit_model_instance addresses the
\* instance with the same selector as get_model_instance, the model's alias
\* plus the version, and edit_test_instance with the same selector as
\* get_test_instance.
C30_EditSelectsWhatGetSelects ==
    (DoneOneOf({"edit_model_instance", "edit_test_instance"})
        /\ args.instance_id = "" /\ IdArg = "" /\ args.alias # "" /\ args.version # "")
        => /\ Len(out.http) = 1
           /\ out.http[1].path = GetByAlias.path
           /\ Selector(out.http[1]) = Selector(GetByAlias)


====
